---- MODULE Spec2Model ----
(***************************************************************************)
(* Perpetua: a transparent OAuth proxy.  The model covers the SQLite token *)
(* store, the proxy handler, the background refresh loop and the OAuth     *)
(* start/callback routes.                                                  *)
(*                                                                         *)
(* Scheduling.  The server is one Node.js process.  Every store method is  *)
(* an async function whose body is synchronous (better-sqlite3), so a      *)
(* store call takes effect at the call and its continuation runs in the    *)
(* same microtask drain.  The only points at which another handler can run *)
(* are the network awaits (fetch and the reading of its response).  An     *)
(* action of the model is therefore the code of one handler from one       *)
(* network await to the next.                                              *)
(***************************************************************************)
EXTENDS Integers, Sequences, FiniteSets, TLC

\* ---------------------------------------------------------------- bounds
T0 == 1000
MaxAdvance == 3
MaxRecords == 2
MaxMint == 2
MaxQueryLen == 3
MaxExtraHeaders == 2
MaxStates == 2
EncKey == 5

\* ------------------------------------------------------- program constants
REFRESH_INTERVAL_SEC == 300
REFRESH_THRESHOLD_SEC == 600
PROXY_EXPIRY_BUFFER_SEC == 300
DEFAULT_EXPIRES_IN == 3600
STATE_TTL_SEC == 600
IV_BYTES == 12

\* ------------------------------------------------------------ JS values
\* JavaScript null / undefined for string-valued slots; a template literal
\* renders them as these very words.
NULL == "null"
UNDEFINED == "undefined"
\* null for record-valued slots, and for number-valued slots (expires_at)
NullRecord == [isNull |-> TRUE]
None == << >>
Some(v) == <<v>>

Truthy(s) == s # NULL /\ s # UNDEFINED /\ s # ""

API_KEY == "perpetua-key"

\* the slots of the requests in flight
ReqSlots == {1, 2}
CycleSlots == {1, 2}
CbSlots == {1, 2}

\* ------------------------------------------------------ provider registry
Registry ==
  [ oura |-> [ base_url |-> "https://api.oura", token_url |-> "https://oura/token",
               client_id |-> "oura-id", client_secret |-> "oura-secret" ],
    gcal |-> [ base_url |-> "https://api.gcal", token_url |-> "https://gcal/token",
               client_id |-> "gcal-id", client_secret |-> "gcal-secret" ] ]

getProvider(slug) == IF slug \in DOMAIN Registry THEN Registry[slug] ELSE NullRecord

Slugs == DOMAIN Registry \cup {"nope"}
Accounts == {"a", "b", "default"}
\* ORDER BY account: SQLite's binary collation on these names
AccountOrder == <<"a", "b", "default">>
AccountRank(a) == CHOOSE i \in 1..Len(AccountOrder) : AccountOrder[i] = a

\* ---------------------------------------------------------------- cipher
\* AES-256-GCM is modelled as a counter-mode stream cipher over a small
\* alphabet with a keyed tag: the ciphertext is the plaintext shifted by a
\* keystream that depends on key and nonce, the tag binds key, nonce and
\* ciphertext.
PlainTexts == <<"r1", "r2", "r3">>
NPlain == Len(PlainTexts)
PlainIndex(p) == CHOOSE i \in 1..NPlain : PlainTexts[i] = p
Nonces == 1..2
KeyStream(key, iv) == (key * (iv + 1)) % NPlain
GcmTag(key, iv, ct) == (key + (IV_BYTES + 1) * iv + ct) % (NPlain + 2)
DECRYPT_ERROR == "DecryptError"

encrypt(plaintext, iv) ==
  LET ct == (PlainIndex(plaintext) - 1 + KeyStream(EncKey, iv)) % NPlain
  IN  [iv |-> iv, data |-> ct, tag |-> GcmTag(EncKey, iv, ct)]

decrypt(stored) ==
  IF stored.tag # GcmTag(EncKey, stored.iv, stored.data)
  THEN DECRYPT_ERROR
  ELSE PlainTexts[((stored.data + NPlain - KeyStream(EncKey, stored.iv)) % NPlain) + 1]

\* ----------------------------------------------------------- token store
\* A row of table connections.  expires_at is None or Some(unix seconds).
Row(p, a, enc, at, exp, sc, c, u) ==
  [ provider |-> p, account |-> a, refresh_token_encrypted |-> enc,
    access_token |-> at, expires_at |-> exp, scopes |-> sc,
    created_at |-> c, updated_at |-> u ]

rowToRecord(row) ==
  [ provider |-> row.provider, account |-> row.account,
    refreshToken |-> decrypt(row.refresh_token_encrypted),
    accessToken |-> row.access_token, expiresAt |-> row.expires_at,
    scopes |-> row.scopes, createdAt |-> row.created_at, updatedAt |-> row.updated_at ]

IsError(x) == x = [error |-> DECRYPT_ERROR]
StoreError == [error |-> DECRYPT_ERROR]

\* a row whose refresh token cannot be decrypted makes the read throw
Decoded(row) ==
  IF decrypt(row.refresh_token_encrypted) = DECRYPT_ERROR THEN StoreError ELSE rowToRecord(row)

SelectRows(conns, p, a) == {r \in conns : r.provider = p /\ r.account = a}

\* mutant: a conflict replaces the row, created_at included
storeToken_Replace(conns, t, p, a, refreshToken, iv, at, exp, sc) ==
  {r \in conns : ~(r.provider = p /\ r.account = a)}
  \cup {Row(p, a, encrypt(refreshToken, iv), at, exp, sc, t, t)}

storeToken(conns, t, p, a, refreshToken, iv, at, exp, sc) ==
  LET old == SelectRows(conns, p, a)
      enc == encrypt(refreshToken, iv)
  IN  IF old = {}
      THEN conns \cup {Row(p, a, enc, at, exp, sc, t, t)}
      ELSE (conns \ old) \cup
           {[r EXCEPT !.refresh_token_encrypted = enc, !.access_token = at,
                      !.expires_at = exp, !.scopes = sc, !.updated_at = t] : r \in old}

getToken(conns, p, a) ==
  LET rows == SelectRows(conns, p, a)
  IN  IF rows = {} THEN NullRecord ELSE Decoded(CHOOSE r \in rows : TRUE)

\* mutant: among several accounts without a "default" the first by name wins
getDefaultToken_FirstRow(conns, p) ==
  LET rows == {r \in conns : r.provider = p}
      defaultRows == {r \in rows : r.account = "default"}
  IN  IF Cardinality(rows) = 0 THEN NullRecord
      ELSE IF defaultRows # {} THEN Decoded(CHOOSE r \in defaultRows : TRUE)
      ELSE Decoded(CHOOSE r \in rows :
                     \A q \in rows : AccountRank(r.account) <= AccountRank(q.account))

getDefaultToken(conns, p) ==
  LET rows == {r \in conns : r.provider = p}
      defaultRows == {r \in rows : r.account = "default"}
  IN  IF Cardinality(rows) = 0 THEN NullRecord
      ELSE IF Cardinality(rows) = 1 THEN Decoded(CHOOSE r \in rows : TRUE)
      ELSE IF defaultRows = {} THEN NullRecord
      ELSE Decoded(CHOOSE r \in defaultRows : TRUE)

\* mutant: the access token is written and the expiry is left
updateAccessToken_KeepExpiry(conns, t, p, a, at, exp) ==
  {IF r.provider = p /\ r.account = a
   THEN [r EXCEPT !.access_token = at, !.updated_at = t]
   ELSE r : r \in conns}

\* mutant: the UPDATE rewrites the whole row
updateAccessToken_WholeRow(conns, t, p, a, at, exp) ==
  {IF r.provider = p /\ r.account = a
   THEN [r EXCEPT !.access_token = at, !.expires_at = exp, !.updated_at = t,
                  !.scopes = NULL, !.created_at = t]
   ELSE r : r \in conns}

\* mutant: the write inserts the row when there is none
updateAccessToken_Upsert(conns, t, p, a, at, exp) ==
  IF SelectRows(conns, p, a) = {}
  THEN conns \cup {Row(p, a, encrypt(PlainTexts[1], 1), at, exp, NULL, t, t)}
  ELSE {IF r.provider = p /\ r.account = a
        THEN [r EXCEPT !.access_token = at, !.expires_at = exp, !.updated_at = t]
        ELSE r : r \in conns}

updateAccessToken(conns, t, p, a, at, exp) ==
  {IF r.provider = p /\ r.account = a
   THEN [r EXCEPT !.access_token = at, !.expires_at = exp, !.updated_at = t]
   ELSE r : r \in conns}

deleteToken(conns, p, a) == {r \in conns : ~(r.provider = p /\ r.account = a)}

\* ORDER BY provider: SQLite's binary collation on the slugs
ProviderOrder == <<"gcal", "nope", "oura">>
ProviderRank(p) == CHOOSE i \in 1..Len(ProviderOrder) : ProviderOrder[i] = p

\* the columns listConnections selects; id is provider:account as storeToken
\* wrote it
rowToConnection(row) ==
  [ id |-> row.provider \o ":" \o row.account, provider |-> row.provider,
    account |-> row.account, accessToken |-> row.access_token, expiresAt |-> row.expires_at,
    scopes |-> row.scopes, createdAt |-> row.created_at, updatedAt |-> row.updated_at ]

\* q sorts before r under ORDER BY provider, account
SortsBefore(q, r) ==
  \/ ProviderRank(q.provider) < ProviderRank(r.provider)
  \/ q.provider = r.provider /\ AccountRank(q.account) < AccountRank(r.account)

\* mutant: ORDER BY account, provider
listConnections_ByAccount(conns) ==
  [i \in 1..Cardinality(conns) |->
     rowToConnection(CHOOSE r \in conns :
       Cardinality({q \in conns :
          \/ AccountRank(q.account) < AccountRank(r.account)
          \/ q.account = r.account /\ ProviderRank(q.provider) < ProviderRank(r.provider)})
        = i - 1)]

listConnections(conns) ==
  [i \in 1..Cardinality(conns) |->
     rowToConnection(CHOOSE r \in conns :
                       Cardinality({q \in conns : SortsBefore(q, r)}) = i - 1)]

\* mutant: the threshold itself counts as due
NeedsRefresh_Inclusive(row, t, thresholdSec) ==
  row.expires_at = None \/ row.expires_at[1] <= t + thresholdSec

NeedsRefresh(row, t, thresholdSec) ==
  row.expires_at = None \/ row.expires_at[1] < t + thresholdSec

getTokensNeedingRefresh(conns, t, thresholdSec) ==
  {r \in conns : NeedsRefresh(r, t, thresholdSec)}

\* table oauth_states: a set of rows keyed by state
saveOAuthState(states, t, s, p, a) ==
  {r \in states : r.state # s} \cup {[state |-> s, provider |-> p, account |-> a, created_at |-> t]}

consumeLookup(states, s) ==
  LET rows == {r \in states : r.state = s}
  IN  IF rows = {} THEN NullRecord
      ELSE LET row == CHOOSE r \in rows : TRUE
           IN  [provider |-> row.provider, account |-> row.account]

\* mutant: the row is read and left in the table
consumeDelete_Keep(states, s) == states

consumeDelete(states, s) ==
  IF consumeLookup(states, s) = NullRecord THEN states ELSE {r \in states : r.state # s}

cleanOAuthStates(states, t) == {r \in states : ~(r.created_at < t - STATE_TTL_SEC)}


\* ------------------------------------------------------------ middleware
\* An inbound header value: a string (isArray = FALSE, one element) or an
\* array of strings.  Node delivers header names in lower case.
Scalar(v) == [isArray |-> FALSE, vals |-> <<v>>]
Array(vs) == [isArray |-> TRUE, vals |-> vs]

BearerOf(key) == "Bearer " \o key
\* authHeader.slice(7) of the header values the model sends, UNDEFINED when
\* the value does not start with "Bearer "
BearerCredential(v) ==
  CASE v = BearerOf(API_KEY) -> API_KEY
    [] v = BearerOf("wrong-key") -> "wrong-key"
    [] OTHER -> UNDEFINED

requireApiKey(headers) ==
  IF "authorization" \notin DOMAIN headers THEN 401
  ELSE LET authHeader == headers["authorization"].vals[1]
       IN  IF BearerCredential(authHeader) = UNDEFINED THEN 401
           ELSE IF BearerCredential(authHeader) # API_KEY THEN 401
           ELSE 0

\* ----------------------------------------------------------------- proxy
\* request.query as the query-string parser builds it from the raw pairs
\* of the URL: one entry per key in order of first occurrence, a repeated
\* key becomes an array.
RECURSIVE ParseQuery(_)
ParseQuery(raw) ==
  IF raw = << >> THEN << >>
  ELSE LET init == ParseQuery(SubSeq(raw, 1, Len(raw) - 1))
           kv == raw[Len(raw)]
           hit == {i \in 1..Len(init) : init[i].k = kv[1]}
       IN  IF hit = {} THEN Append(init, [k |-> kv[1], isArray |-> FALSE, vals |-> <<kv[2]>>])
           ELSE [i \in 1..Len(init) |->
                   IF i \in hit
                   THEN [init[i] EXCEPT !.isArray = TRUE, !.vals = Append(init[i].vals, kv[2])]
                   ELSE init[i]]

\* request.query.account: NullRecord for undefined, else the entry of the key
QueryAccount(query) ==
  LET hit == {i \in 1..Len(query) : query[i].k = "account"}
  IN  IF hit = {} THEN NullRecord ELSE query[CHOOSE i \in hit : TRUE]

\* URLSearchParams.set: replace the first pair of the key and drop the
\* others, or append
ParamsSet(params, k, v) ==
  LET hit == {i \in 1..Len(params) : params[i][1] = k}
  IN  IF hit = {} THEN Append(params, <<k, v>>)
      ELSE LET first == CHOOSE i \in hit : \A j \in hit : i <= j
               keep == {i \in 1..Len(params) : i \notin hit \/ i = first}
               Nth(n) == CHOOSE i \in keep : Cardinality({j \in keep : j < i}) = n - 1
           IN  [n \in 1..Cardinality(keep) |->
                  IF Nth(n) = first THEN <<k, v>> ELSE params[Nth(n)]]

RECURSIVE ParamsAppendAll(_, _, _)
ParamsAppendAll(params, k, vals) ==
  IF vals = << >> THEN params
  ELSE ParamsAppendAll(Append(params, <<k, Head(vals)>>), k, Tail(vals))

\* mutant: an array value is set, not appended
RECURSIVE stripQueryParams_SetArrays(_, _)
stripQueryParams_SetArrays(query, keys) ==
  IF query = << >> THEN << >>
  ELSE LET params == stripQueryParams_SetArrays(SubSeq(query, 1, Len(query) - 1), keys)
           e == query[Len(query)]
       IN  IF e.k \in keys THEN params
           ELSE ParamsSet(params, e.k, e.vals[Len(e.vals)])

\* the pairs of the query string sent upstream; << >> is the empty string
RECURSIVE stripQueryParams(_, _)
stripQueryParams(query, keys) ==
  IF query = << >> THEN << >>
  ELSE LET params == stripQueryParams(SubSeq(query, 1, Len(query) - 1), keys)
           e == query[Len(query)]
       IN  IF e.k \in keys THEN params
           ELSE IF e.isArray THEN ParamsAppendAll(params, e.k, e.vals)
           ELSE ParamsSet(params, e.k, e.vals[1])

HOP_BY_HOP_HEADERS ==
  {"connection", "keep-alive", "proxy-authenticate", "proxy-authorization", "te",
   "trailers", "transfer-encoding", "upgrade", "host", "authorization"}

\* String.prototype.toLowerCase on the header names of the model
toLowerCase(k) ==
  CASE k = "X-Trace" -> "x-trace"
    [] k = "Accept" -> "accept"
    [] OTHER -> k

RECURSIVE Join(_)
Join(vals) ==
  IF Len(vals) = 0 THEN ""
  ELSE IF Len(vals) = 1 THEN vals[1]
  ELSE vals[1] \o ", " \o Join(Tail(vals))

\* mutant: every inbound header is copied before authorization is set
ForwardHeaders_CopyAll(headers, accessToken) ==
  [k \in DOMAIN headers \cup {"authorization"} |->
     IF k = "authorization" THEN "Bearer " \o accessToken
     ELSE IF headers[k].isArray THEN Join(headers[k].vals)
     ELSE headers[k].vals[1]]

ForwardHeaders(headers, accessToken) ==
  LET copied == {k \in DOMAIN headers : toLowerCase(k) \notin HOP_BY_HOP_HEADERS}
  IN  [k \in copied \cup {"authorization"} |->
         IF k = "authorization" THEN "Bearer " \o accessToken
         ELSE IF headers[k].isArray THEN Join(headers[k].vals)
         ELSE headers[k].vals[1]]

WildcardPath == "v2/sleep"

UpstreamCall(cfg, query, headers, accessToken) ==
  [ ev |-> "upstream",
    url |-> [base |-> cfg.base_url, path |-> "/" \o WildcardPath,
             query |-> stripQueryParams(query, {"account"})],
    headers |-> ForwardHeaders(headers, accessToken) ]

\* mutant: the buffer compared with <= instead of <
shouldRefresh_AtBuffer(tokenRecord, nowSec) ==
  \/ ~Truthy(tokenRecord.accessToken)
  \/ (tokenRecord.expiresAt # None /\ tokenRecord.expiresAt[1] - nowSec <= PROXY_EXPIRY_BUFFER_SEC)

shouldRefresh(tokenRecord, nowSec) ==
  \/ ~Truthy(tokenRecord.accessToken)
  \/ (tokenRecord.expiresAt # None /\ tokenRecord.expiresAt[1] - nowSec < PROXY_EXPIRY_BUFFER_SEC)

\* mutant: without a selector the account is taken to be "default"
LoadToken_DefaultName(conns, provider, accountParam) ==
  IF accountParam # NullRecord /\ accountParam.isArray
  THEN [ tokenRecord |-> [error |-> "DecryptError"], account |-> "",
         reads |-> <<[ev |-> "getToken", provider |-> provider, account |-> ""]>> ]
  ELSE IF accountParam # NullRecord /\ Truthy(accountParam.vals[1])
  THEN [ tokenRecord |-> getToken(conns, provider, accountParam.vals[1]),
         account |-> accountParam.vals[1],
         reads |-> <<[ev |-> "getToken", provider |-> provider, account |-> accountParam.vals[1]]>> ]
  ELSE LET defaultNamed == getToken(conns, provider, "default")
           readDefault == [ev |-> "getToken", provider |-> provider, account |-> "default"]
       IN  IF defaultNamed # NullRecord
           THEN [ tokenRecord |-> defaultNamed, account |-> "default", reads |-> <<readDefault>> ]
           ELSE [ tokenRecord |-> getDefaultToken(conns, provider), account |-> "default",
                  reads |-> <<readDefault, [ev |-> "getDefaultToken", provider |-> provider]>> ]

\* step 2 of the handler: the record, the account name used afterwards and
\* the store reads made
\* An array (a repeated ?account=) is truthy, and better-sqlite3 spreads an
\* array argument into positional parameters: one too many, the read throws.
LoadToken(conns, provider, accountParam) ==
  IF accountParam # NullRecord /\ accountParam.isArray
  THEN [ tokenRecord |-> StoreError, account |-> "",
         reads |-> <<[ev |-> "getToken", provider |-> provider, account |-> Join(accountParam.vals)]>> ]
  ELSE IF accountParam # NullRecord /\ Truthy(accountParam.vals[1])
  THEN [ tokenRecord |-> getToken(conns, provider, accountParam.vals[1]),
         account |-> accountParam.vals[1],
         reads |-> <<[ev |-> "getToken", provider |-> provider, account |-> accountParam.vals[1]]>> ]
  ELSE LET defaultNamed == getToken(conns, provider, "default")
           readDefault == [ev |-> "getToken", provider |-> provider, account |-> "default"]
       IN  IF defaultNamed # NullRecord
           THEN [ tokenRecord |-> defaultNamed, account |-> "default", reads |-> <<readDefault>> ]
           ELSE LET fallback == getDefaultToken(conns, provider)
                IN  [ tokenRecord |-> fallback,
                      account |-> IF fallback = NullRecord \/ IsError(fallback) THEN ""
                                  ELSE fallback.account,
                      reads |-> <<readDefault, [ev |-> "getDefaultToken", provider |-> provider]>> ]

\* the form body refreshAccessToken posts to the token endpoint
RefreshRequest(cfg, refreshToken) ==
  [ ev |-> "token", url |-> cfg.token_url, grant_type |-> "refresh_token",
    refresh_token |-> refreshToken, client_id |-> cfg.client_id,
    client_secret |-> cfg.client_secret ]

\* what the token endpoint may answer: a network error, a status with a
\* JSON body.  access_token is UNDEFINED when the body has none.
TokenNames == <<"a2", "a3", "a4", "a5", "a6", "a7">>
ExpiresIn == {None, Some(100)}
\* refresh_token is UNDEFINED unless the provider rotates the refresh token.
TokenResponses(n) ==
  {[kind |-> "neterr", status |-> 0, access_token |-> UNDEFINED, expires_in |-> None,
    refresh_token |-> UNDEFINED],
   [kind |-> "http", status |-> 400, access_token |-> UNDEFINED, expires_in |-> None,
    refresh_token |-> UNDEFINED],
   [kind |-> "http", status |-> 200, access_token |-> TokenNames[n], expires_in |-> None,
    refresh_token |-> PlainTexts[NPlain]]}
  \cup [kind : {"http"}, status : {200}, access_token : {TokenNames[n], UNDEFINED},
        expires_in : ExpiresIn, refresh_token : {UNDEFINED}]

ResponseOk(resp) == resp.kind = "http" /\ resp.status >= 200 /\ resp.status < 300

\* mutant: the status of the response is not looked at
RefreshResult_AnyStatus(resp, t) ==
  IF resp.kind # "http" THEN NullRecord
  ELSE [ accessToken |-> resp.access_token,
         expiresAt |-> t + (IF resp.expires_in = None THEN DEFAULT_EXPIRES_IN
                            ELSE resp.expires_in[1]) ]

\* refreshAccessToken after the response: throws (NullRecord) or returns
RefreshResult(resp, t) ==
  IF ~ResponseOk(resp) THEN NullRecord
  ELSE [ accessToken |-> resp.access_token,
         expiresAt |-> t + (IF resp.expires_in = None THEN DEFAULT_EXPIRES_IN
                            ELSE resp.expires_in[1]) ]

\* mutant: the handler keeps the record it loaded
RefreshedRecord_Old(tokenRecord, result) == tokenRecord

\* tokenRecord = { ...tokenRecord, accessToken, expiresAt }
RefreshedRecord(tokenRecord, result) ==
  [tokenRecord EXCEPT !.accessToken = result.accessToken, !.expiresAt = Some(result.expiresAt)]

\* better-sqlite3 binds undefined as NULL
BindValue(v) == IF v = UNDEFINED THEN NULL ELSE v


\* ----------------------------------------------------------------- state
VARIABLES
  now,           \* Date.now() / 1000 and SQLite's unixepoch()
  connections,   \* table connections
  oauth_states,  \* table oauth_states
  reqs,          \* the proxy requests, by slot
  minted,        \* how many access tokens the token endpoints have issued
  cycles,        \* the runs of runRefreshCycle, by slot
  timer,         \* _timer of the refresh loop: None or Some(handle of its interval)
  cbs,           \* the OAuth callback requests, by slot
  nextState,     \* how many handshake states randomBytes has produced
  ret,           \* the last direct store call, or request to a route of index.ts or
                 \* auth.ts, and what it returned
  node           \* the process: main's position, ENCRYPTION_KEY, the event loop's timers

vars == <<now, connections, oauth_states, reqs, minted, cycles, timer, cbs, nextState, ret, node>>

IdleReq ==
  [ pc |-> "idle", provider |-> "", rawQuery |-> << >>, headers |-> << >>,
    account |-> "", tokenRecord |-> NullRecord, nowSec |-> 0, log |-> << >>,
    reply |-> NullRecord,
    \* history: the record as loaded, the token endpoint's answer and its time
    resolved |-> NullRecord, tokenResp |-> NullRecord,
    \* history: what the upstream fetch came back with (0: it failed)
    upstreamStatus |-> None ]

IdleCycle == [pc |-> "idle", tokens |-> << >>, idx |-> 0, log |-> << >>, started |-> 0]

IdleCb ==
  [ pc |-> "idle", provider |-> "", state |-> 0, stateData |-> NullRecord,
    log |-> << >>, reply |-> NullRecord,
    \* history: how old the row was that consumeOAuthState found, and the
    \* token endpoint's answer to the code exchange
    age |-> None, tokenResp |-> NullRecord ]

NoRet == [op |-> "none"]

\* ENCRYPTION_KEY as getKey sees it: 64 hex characters, 64 characters that
\* are not all hex, another length, or not set
KeyKinds == {"hex64", "nothex64", "short", "unset"}

\* The process once main has run to its end with a good key: the server
\* listens, and no interval timer has been created yet.  intervals are the
\* active timers of the event loop, each with its handle and next firing;
\* handles counts the setInterval calls.
ServingNode == [main |-> "listening", key |-> "hex64", intervals |-> {}, handles |-> 0]

\* ------------------------------------------------------------ initial stores
\* The database file outlives the process: the server starts on whatever
\* rows earlier runs left, records of providers no longer registered
\* included.
RefreshTokenOf(a) == PlainTexts[AccountRank(a)]

InitRow(key, variant) ==
  Row(key[1], key[2], encrypt(RefreshTokenOf(key[2]), 1), variant[1], variant[2],
      "scope", T0 - 100, T0 - 100)

StoreFamily(keys, variants, max) ==
  UNION { { {InitRow(k, f[k]) : k \in K} : f \in [K -> variants] } :
          K \in {S \in SUBSET keys : Cardinality(S) <= max} }

\* access token present or null, expiry null, below and at the proxy buffer
ProxyVariants ==
  {<<"a1", None>>, <<"a1", Some(T0 + PROXY_EXPIRY_BUFFER_SEC - 1)>>,
   <<"a1", Some(T0 + PROXY_EXPIRY_BUFFER_SEC)>>, <<NULL, Some(T0 + DEFAULT_EXPIRES_IN)>>}

\* no request, cycle or callback has begun
InitIdle ==
  /\ now = T0
  /\ oauth_states = {}
  /\ reqs = [r \in ReqSlots |-> IdleReq]
  /\ minted = 0
  /\ cycles = [c \in CycleSlots |-> IdleCycle]
  /\ timer = None
  /\ cbs = [c \in CbSlots |-> IdleCb]
  /\ nextState = 0
  /\ ret = NoRet

InitCommon ==
  /\ InitIdle
  /\ node = ServingNode

\* ------------------------------------------------------------------ time
AdvanceTime ==
  /\ now < T0 + MaxAdvance * REFRESH_INTERVAL_SEC
  /\ \A i \in node.intervals : now < i.next
  /\ now' = now + REFRESH_INTERVAL_SEC
  /\ UNCHANGED <<connections, oauth_states, reqs, minted, cycles, timer, cbs, nextState, ret, node>>

\* --------------------------------------------------------- proxy handler
Reply(code, error) == [code |-> code, error |-> error]

\* mutant: the token is loaded before the provider is resolved
ProxyBeginResult_LoadFirst(conns, t, provider, rawQuery, headers) ==
  LET accountParam == QueryAccount(ParseQuery(rawQuery))
      loaded == LoadToken(conns, provider, accountParam)
      base == [IdleReq EXCEPT !.provider = provider, !.rawQuery = rawQuery, !.headers = headers]
  IN  IF requireApiKey(headers) # 0
      THEN [base EXCEPT !.pc = "done", !.reply = Reply(requireApiKey(headers), "Unauthorized")]
      ELSE IF getProvider(provider) = NullRecord
      THEN [base EXCEPT !.pc = "done", !.log = loaded.reads, !.reply = Reply(404, "UnknownProvider")]
      ELSE [base EXCEPT !.pc = "done", !.log = loaded.reads, !.reply = Reply(404, "NoConnection")]

\* ALL /proxy/:provider/* up to its first network await
ProxyBeginResult(conns, t, provider, rawQuery, headers) ==
  LET query == ParseQuery(rawQuery)
      accountParam == QueryAccount(query)
      providerCfg == getProvider(provider)
      loaded == LoadToken(conns, provider, accountParam)
      tokenRecord == loaded.tokenRecord
      base == [IdleReq EXCEPT !.provider = provider, !.rawQuery = rawQuery, !.headers = headers]
  IN  IF requireApiKey(headers) # 0
      THEN [base EXCEPT !.pc = "done", !.reply = Reply(requireApiKey(headers), "Unauthorized")]
      ELSE IF providerCfg = NullRecord
      THEN [base EXCEPT !.pc = "done", !.reply = Reply(404, "UnknownProvider")]
      ELSE IF IsError(tokenRecord)
      THEN [base EXCEPT !.pc = "done", !.log = loaded.reads, !.reply = Reply(500, "InternalError")]
      ELSE IF tokenRecord = NullRecord
      THEN [base EXCEPT !.pc = "done", !.log = loaded.reads, !.account = loaded.account,
                        !.reply = Reply(404, "NoConnection")]
      ELSE IF shouldRefresh(tokenRecord, t)
      THEN [base EXCEPT !.pc = "refreshing", !.account = loaded.account,
                        !.tokenRecord = tokenRecord, !.nowSec = t, !.resolved = tokenRecord,
                        !.log = Append(loaded.reads, RefreshRequest(providerCfg, tokenRecord.refreshToken))]
      ELSE [base EXCEPT !.pc = "forwarding", !.account = loaded.account,
                        !.tokenRecord = tokenRecord, !.nowSec = t, !.resolved = tokenRecord,
                        !.log = Append(loaded.reads,
                                       UpstreamCall(providerCfg, query, headers, tokenRecord.accessToken))]

ProxyBegin(r, provider, rawQuery, headers) ==
  /\ reqs[r].pc = "idle"
  /\ reqs' = [reqs EXCEPT ![r] = ProxyBeginResult(connections, now, provider, rawQuery, headers)]
  /\ UNCHANGED <<now, connections, oauth_states, minted, cycles, timer, cbs, nextState, ret, node>>

\* the token endpoint answered (or the connection failed): the rest of
\* refreshAccessToken, updateAccessToken and the upstream fetch
ProxyRefreshed(r, resp) ==
  LET req == reqs[r]
      providerCfg == getProvider(req.provider)
      result == RefreshResult(resp, now)
      update == [ ev |-> "updateAccessToken", provider |-> req.provider, account |-> req.account,
                  accessToken |-> result.accessToken, expiresAt |-> result.expiresAt ]
      tokenRecord == RefreshedRecord(req.tokenRecord, result)
  IN  /\ req.pc = "refreshing"
      /\ IF result = NullRecord
         THEN /\ reqs' = [reqs EXCEPT ![r] = [req EXCEPT !.pc = "done",
                                                         !.tokenResp = [resp |-> resp, at |-> now],
                                                         !.reply = Reply(401, "TokenRefreshFailed")]]
              /\ UNCHANGED connections
         ELSE /\ connections' = updateAccessToken(connections, now, req.provider, req.account,
                                                  BindValue(result.accessToken), Some(result.expiresAt))
              /\ reqs' = [reqs EXCEPT ![r] =
                   [req EXCEPT !.pc = "forwarding", !.tokenRecord = tokenRecord,
                               !.tokenResp = [resp |-> resp, at |-> now],
                               !.log = req.log \o <<update,
                                  UpstreamCall(providerCfg, ParseQuery(req.rawQuery), req.headers,
                                               tokenRecord.accessToken)>>]]

ProxyRefreshResponse(r) ==
  /\ minted < MaxMint
  /\ \E resp \in TokenResponses(minted + 1) :
       /\ ProxyRefreshed(r, resp)
       /\ minted' = IF resp.access_token = UNDEFINED THEN minted ELSE minted + 1
  /\ UNCHANGED <<now, oauth_states, cycles, timer, cbs, nextState, ret, node>>

UpstreamStatuses == {200, 401, 500}

\* mutant: a failed upstream fetch is tried once more
ProxyUpstreamResponse_Retry(r, status) ==
  /\ reqs[r].pc = "forwarding"
  /\ reqs' = [reqs EXCEPT ![r] =
       IF status = 0 /\ Len(SelectSeq(@.log, LAMBDA e : e.ev = "upstream")) < 2
       THEN [@ EXCEPT !.log = Append(@, @[Len(@)])]
       ELSE [@ EXCEPT !.pc = "done", !.upstreamStatus = Some(status),
                      !.reply = IF status = 0 THEN Reply(502, "UpstreamError")
                                ELSE Reply(status, "")]]
  /\ UNCHANGED <<now, connections, oauth_states, minted, cycles, timer, cbs, nextState, ret, node>>

\* mutant: a 401 of the upstream API drops the connection
ProxyUpstreamResponse_Drop(r, status) ==
  /\ reqs[r].pc = "forwarding"
  /\ reqs' = [reqs EXCEPT ![r] =
       [@ EXCEPT !.pc = "done", !.upstreamStatus = Some(status),
                 !.reply = IF status = 0 THEN Reply(502, "UpstreamError") ELSE Reply(status, "")]]
  /\ connections' = IF status = 401 THEN deleteToken(connections, reqs[r].provider, reqs[r].account)
                    ELSE connections
  /\ UNCHANGED <<now, oauth_states, minted, cycles, timer, cbs, nextState, ret, node>>

\* the upstream API answered (status > 0) or could not be reached (0)
ProxyUpstreamResponse(r, status) ==
  /\ reqs[r].pc = "forwarding"
  /\ reqs' = [reqs EXCEPT ![r] =
       [@ EXCEPT !.pc = "done", !.upstreamStatus = Some(status),
                 !.reply = IF status = 0 THEN Reply(502, "UpstreamError") ELSE Reply(status, "")]]
  /\ UNCHANGED <<now, connections, oauth_states, minted, cycles, timer, cbs, nextState, ret, node>>

\* DELETE /connections/:provider/:account
DeleteConnection(p, a) ==
  /\ SelectRows(connections, p, a) # {}
  /\ connections' = deleteToken(connections, p, a)
  /\ UNCHANGED <<now, oauth_states, reqs, minted, cycles, timer, cbs, nextState, ret, node>>

\* ------------------------------------------------- the proxy on its own
ProxyKeys == ({"oura"} \X Accounts) \cup {<<"gcal", "default">>}

AuthHeaders == [authorization |-> Scalar(BearerOf(API_KEY))]
ProxyHeaders == {AuthHeaders}
ProxyQueries == {<< >>} \cup {<< <<"account", a>> >> : a \in Accounts \cup {""}}

InitProxy ==
  /\ InitCommon
  /\ connections \in StoreFamily(ProxyKeys, ProxyVariants, MaxRecords)

NextProxy ==
  \/ AdvanceTime
  \/ \E p \in Slugs, q \in ProxyQueries, h \in ProxyHeaders : ProxyBegin(1, p, q, h)
  \/ ProxyRefreshResponse(1)
  \/ \E st \in UpstreamStatuses \cup {0} : ProxyUpstreamResponse(1, st)
  \/ \E p \in Slugs, a \in Accounts : DeleteConnection(p, a)

SpecProxy == InitProxy /\ [][NextProxy]_vars


\* --------------------------------------- the proxy's rewriting of requests
\* One record, fresh or due, and requests that vary the query string or the
\* headers.
ForwardVariants == {<<"a1", Some(T0 + DEFAULT_EXPIRES_IN)>>, <<"a1", Some(T0 - 100)>>}

RECURSIVE SeqsUpTo(_, _)
SeqsUpTo(S, n) ==
  IF n = 0 THEN {<< >>}
  ELSE LET shorter == SeqsUpTo(S, n - 1)
       IN  shorter \cup {Append(q, x) : q \in shorter, x \in S}

QueryPairs == {<<"account", "default">>, <<"limit", "10">>, <<"tag", "x">>, <<"tag", "y">>}
ForwardQueries == SeqsUpTo(QueryPairs, MaxQueryLen)

ExtraHeaderNames == (HOP_BY_HOP_HEADERS \ {"authorization"}) \cup {"accept", "cookie"}
HeaderValue(k) ==
  CASE k = "authorization" -> Scalar(BearerOf(API_KEY))
    [] k = "cookie" -> Array(<<"c1", "c2">>)
    [] OTHER -> Scalar("v")
ForwardHeaderSets ==
  {[k \in S \cup {"authorization"} |-> HeaderValue(k)] :
     S \in {X \in SUBSET ExtraHeaderNames : Cardinality(X) <= MaxExtraHeaders}}

ForwardInputs ==
  {<<q, AuthHeaders>> : q \in ForwardQueries} \cup {<< << >>, h>> : h \in ForwardHeaderSets}

InitForward ==
  /\ InitCommon
  /\ connections \in StoreFamily({<<"oura", "default">>}, ForwardVariants, MaxRecords)

NextForward ==
  \/ AdvanceTime
  \/ \E in \in ForwardInputs : ProxyBegin(1, "oura", in[1], in[2])
  \/ ProxyRefreshResponse(1)
  \/ \E st \in UpstreamStatuses \cup {0} : ProxyUpstreamResponse(1, st)

SpecForward == InitForward /\ [][NextForward]_vars

\* ------------------------------------------------------ claims on the proxy
Events(req, kind) == SelectSeq(req.log, LAMBDA e : e.ev = kind)
Reads(req) == SelectSeq(req.log, LAMBDA e : e.ev \in {"getToken", "getDefaultToken"})
Calls(req) == SelectSeq(req.log, LAMBDA e : e.ev \in {"token", "updateAccessToken", "upstream"})

\* the refresh condition as the specification words it
RefreshDue(rec, nowSec) ==
  rec.accessToken = NULL \/ (rec.expiresAt # None /\ rec.expiresAt[1] - nowSec < 300)

\* C2: a request with a resolved record calls the token endpoint if and only
\* if the access token is absent or expiresAt is non-null and less than 300
\* seconds ahead; otherwise it sends nothing to the token endpoint and
\* forwards with the stored access token.
C2_RefreshIffDue ==
  \A r \in ReqSlots :
    LET req == reqs[r]
        rec == req.resolved
    IN  rec # NullRecord =>
          /\ (Len(Events(req, "token")) >= 1) <=> RefreshDue(rec, req.nowSec)
          /\ ~RefreshDue(rec, req.nowSec) =>
               /\ Len(Events(req, "upstream")) = 1
               /\ Len(Events(req, "updateAccessToken")) = 0
               /\ Events(req, "upstream")[1].headers["authorization"] = "Bearer " \o rec.accessToken

\* a request answered 200 for a record exactly 300 seconds from expiry, with
\* no call to the token endpoint
C2_Witness ==
  \E r \in ReqSlots :
    /\ reqs[r].pc = "done" /\ reqs[r].reply.code = 200
    /\ reqs[r].resolved # NullRecord
    /\ reqs[r].resolved.accessToken = "a1"
    /\ reqs[r].resolved.expiresAt = Some(reqs[r].nowSec + 300)
    /\ Len(Events(reqs[r], "token")) = 0

RefreshFailure(resp) == resp.kind = "neterr" \/ resp.status < 200 \/ resp.status > 299

\* C3: the step in which a request learns that its refresh exchange failed
\* (network error or non-2xx) ends the request with 401 TokenRefreshFailed,
\* leaves table connections as it was, and the request has called the token
\* endpoint once, updateAccessToken never and the upstream API never.
C3_FailedRefresh ==
  [][\A r \in ReqSlots :
       (/\ reqs[r].pc = "refreshing"
        /\ reqs'[r].pc # "refreshing"
        /\ RefreshFailure(reqs'[r].tokenResp.resp))
       => /\ reqs'[r].pc = "done"
          /\ reqs'[r].reply = [code |-> 401, error |-> "TokenRefreshFailed"]
          /\ connections' = connections
          /\ Len(Events(reqs'[r], "token")) = 1
          /\ Len(Events(reqs'[r], "updateAccessToken")) = 0
          /\ Len(Events(reqs'[r], "upstream")) = 0]_vars

\* a request ended by a 400 of the token endpoint
C3_Witness ==
  \E r \in ReqSlots :
    /\ reqs[r].pc = "done"
    /\ reqs[r].tokenResp # NullRecord
    /\ reqs[r].tokenResp.resp.status = 400
    /\ reqs[r].reply.code = 401
    /\ SelectRows(connections, reqs[r].provider, reqs[r].account) # {}

ReturnedExpiry(tokenResp) ==
  tokenResp.at + (IF tokenResp.resp.expires_in = None THEN 3600 ELSE tokenResp.resp.expires_in[1])

\* C4: a request that resolved a record due for refresh makes its calls in
\* this order: one call to the provider's token endpoint with the record's
\* refresh token; then one updateAccessToken for the record's (provider,
\* account) with the returned access token and expiry; then the upstream
\* call, whose Authorization header carries the returned token and not the
\* old one.  A successful exchange is followed by both later calls, and the
\* row (while it exists) holds the returned pair.
C4_RefreshThenForward ==
  \A r \in ReqSlots :
    LET req == reqs[r]
        rec == req.resolved
        calls == Calls(req)
    IN  (rec # NullRecord /\ RefreshDue(rec, req.nowSec)) =>
          /\ Len(calls) \in 1..3
          /\ calls[1].ev = "token"
          /\ calls[1].url = Registry[rec.provider].token_url
          /\ calls[1].grant_type = "refresh_token"
          /\ calls[1].refresh_token = RefreshTokenOf(rec.account)
          /\ (req.tokenResp # NullRecord /\ ~RefreshFailure(req.tokenResp.resp)) => Len(calls) = 3
          /\ Len(calls) >= 2 =>
               /\ Len(calls) = 3
               /\ calls[2] = [ ev |-> "updateAccessToken", provider |-> rec.provider,
                               account |-> rec.account,
                               accessToken |-> req.tokenResp.resp.access_token,
                               expiresAt |-> ReturnedExpiry(req.tokenResp) ]
               /\ calls[3].ev = "upstream"
               /\ calls[3].headers["authorization"] = "Bearer " \o req.tokenResp.resp.access_token
               /\ calls[3].headers["authorization"] # "Bearer " \o rec.accessToken
               /\ \A row \in SelectRows(connections, rec.provider, rec.account) :
                    /\ row.expires_at = Some(ReturnedExpiry(req.tokenResp))
                    /\ req.tokenResp.resp.access_token # UNDEFINED =>
                         row.access_token = req.tokenResp.resp.access_token

\* a request answered 200 after refreshing a record that had expired
C4_Witness ==
  \E r \in ReqSlots :
    /\ reqs[r].pc = "done" /\ reqs[r].reply.code = 200
    /\ reqs[r].resolved # NullRecord
    /\ reqs[r].resolved.expiresAt # None
    /\ reqs[r].resolved.expiresAt[1] < reqs[r].nowSec
    /\ Len(Calls(reqs[r])) = 3
    /\ reqs[r].tokenResp.resp.access_token # UNDEFINED
    /\ SelectRows(connections, reqs[r].provider, reqs[r].account) # {}

\* the account selectors of the URL
Selectors(raw) == {raw[i][2] : i \in {j \in 1..Len(raw) : raw[j][1] = "account"}}

Resolution(req, conns, explicit) ==
  LET p == req.provider
      NoConnection == req.reply = [code |-> 404, error |-> "NoConnection"] /\ req.resolved = NullRecord
      Resolved(a) == /\ req.resolved # NullRecord
                     /\ req.resolved.provider = p /\ req.resolved.account = a
                     /\ req.resolved.refreshToken = RefreshTokenOf(a)
                     /\ req.account = a
      others == {row.account : row \in {x \in conns : x.provider = p}}
  IN  IF explicit
      THEN \E a \in Selectors(req.rawQuery) :
             IF SelectRows(conns, p, a) = {} THEN NoConnection ELSE Resolved(a)
      ELSE IF SelectRows(conns, p, "default") # {} THEN Resolved("default")
      ELSE IF Cardinality(others) = 1 THEN \E a \in others : Resolved(a)
      ELSE NoConnection

BeginsResolution(r) ==
  /\ reqs[r].pc = "idle"
  /\ reqs'[r].pc # "idle"
  /\ reqs'[r].reply \notin {[code |-> 401, error |-> "Unauthorized"],
                           [code |-> 404, error |-> "UnknownProvider"]}

\* C7: when the URL carries an account selector, exactly that (provider,
\* account) is looked up and a miss is NoConnection; without a selector the
\* record named "default" is used if it exists, else the provider's only
\* record, else NoConnection; the account written back is the resolved
\* record's.
C7_AccountResolution ==
  [][\A r \in ReqSlots :
       BeginsResolution(r) =>
         Resolution(reqs'[r], connections, Selectors(reqs'[r].rawQuery) # {})]_vars

\* C7 with an empty selector (?account=) counted as no selector
C7_NonEmptySelector ==
  [][\A r \in ReqSlots :
       BeginsResolution(r) =>
         Resolution(reqs'[r], connections, Selectors(reqs'[r].rawQuery) \ {""} # {})]_vars


\* the access token a request holds when it forwards
HeldToken(req) ==
  IF req.tokenResp = NullRecord THEN req.resolved.accessToken
  ELSE req.tokenResp.resp.access_token

\* C9: in every upstream call the authorization header is "Bearer " and the
\* access token of the resolved record (the refreshed one after a refresh),
\* never the caller's API key, and no header of the exclusion set is copied
\* from the inbound request.
C9_UpstreamHeaders ==
  \A r \in ReqSlots :
    \A i \in 1..Len(Events(reqs[r], "upstream")) :
      LET sent == Events(reqs[r], "upstream")[i].headers
      IN  /\ sent["authorization"] = "Bearer " \o HeldToken(reqs[r])
          /\ sent["authorization"] # "Bearer " \o API_KEY
          /\ sent["authorization"] # reqs[r].headers["authorization"].vals[1]
          /\ \A k \in DOMAIN sent :
               k \notin {"connection", "keep-alive", "proxy-authenticate", "proxy-authorization",
                         "te", "trailers", "transfer-encoding", "upgrade", "host"}

\* a forwarded request that came with Host and Proxy-Authorization headers
C9_Witness ==
  \E r \in ReqSlots :
    /\ reqs[r].pc = "done" /\ reqs[r].reply.code = 200
    /\ {"host", "proxy-authorization", "authorization"} \subseteq DOMAIN reqs[r].headers
    /\ Len(Events(reqs[r], "upstream")) = 1

PairsOf(pairs, k) == SelectSeq(pairs, LAMBDA kv : kv[1] = k)
KeysOf(pairs) == {pairs[i][1] : i \in 1..Len(pairs)}

\* C10: the upstream URL of every proxied request has no account parameter,
\* and every other parameter of the inbound URL is forwarded with its
\* value(s) unchanged.
C10_AccountStripped ==
  \A r \in ReqSlots :
    \A i \in 1..Len(Events(reqs[r], "upstream")) :
      LET sent == Events(reqs[r], "upstream")[i].url.query
          raw == reqs[r].rawQuery
      IN  /\ "account" \notin KeysOf(sent)
          /\ KeysOf(sent) = KeysOf(raw) \ {"account"}
          /\ \A k \in KeysOf(sent) : PairsOf(sent, k) = PairsOf(raw, k)

\* a forwarded request whose URL had an account selector and a repeated
\* parameter
C10_Witness ==
  \E r \in ReqSlots :
    /\ reqs[r].pc = "done" /\ reqs[r].reply.code = 200
    /\ Len(Events(reqs[r], "upstream")) = 1
    /\ "account" \in KeysOf(reqs[r].rawQuery)
    /\ Len(PairsOf(reqs[r].rawQuery, "tag")) = 2


\* ------------------------------------------------ the store called directly
\* The methods of ITokenStore on a store of up to MaxRecords + 1 records of
\* two providers; ret holds the last read and is cleared by every write.
StoreKeys == {"oura", "gcal"} \X Accounts
StoreVariants == {<<"a1", Some(T0 + DEFAULT_EXPIRES_IN)>>}

CallStoreToken(p, a, iv) ==
  /\ \/ SelectRows(connections, p, a) # {}
     \/ Cardinality(connections) <= MaxRecords
  /\ connections' = storeToken(connections, now, p, a, RefreshTokenOf(a), iv,
                               "a1", Some(now + DEFAULT_EXPIRES_IN), "scope")
  /\ ret' = NoRet
  /\ UNCHANGED <<now, oauth_states, reqs, minted, cycles, timer, cbs, nextState, node>>

CallDeleteToken(p, a) ==
  /\ SelectRows(connections, p, a) # {}
  /\ connections' = deleteToken(connections, p, a)
  /\ ret' = NoRet
  /\ UNCHANGED <<now, oauth_states, reqs, minted, cycles, timer, cbs, nextState, node>>

CallGetToken(p, a) ==
  /\ ret' = [op |-> "getToken", provider |-> p, account |-> a,
             result |-> getToken(connections, p, a)]
  /\ UNCHANGED <<now, connections, oauth_states, reqs, minted, cycles, timer, cbs, nextState, node>>

CallGetDefaultToken(p) ==
  /\ ret' = [op |-> "getDefaultToken", provider |-> p,
             result |-> getDefaultToken(connections, p)]
  /\ UNCHANGED <<now, connections, oauth_states, reqs, minted, cycles, timer, cbs, nextState, node>>

CallListConnections ==
  /\ ret' = [op |-> "listConnections", result |-> listConnections(connections)]
  /\ UNCHANGED <<now, connections, oauth_states, reqs, minted, cycles, timer, cbs, nextState, node>>

InitStore ==
  /\ InitCommon
  /\ connections \in StoreFamily(StoreKeys, StoreVariants, MaxRecords)

NextStore ==
  \/ \E p \in {"oura", "gcal"}, a \in Accounts, iv \in Nonces : CallStoreToken(p, a, iv)
  \/ \E p \in {"oura", "gcal"}, a \in Accounts : CallDeleteToken(p, a)
  \/ \E p \in Slugs, a \in Accounts : CallGetToken(p, a)
  \/ \E p \in Slugs : CallGetDefaultToken(p)
  \/ CallListConnections

SpecStore == InitStore /\ [][NextStore]_vars

\* the records of one provider, as the caller sees them
RecordsOf(conns, p) == {rowToRecord(r) : r \in {x \in conns : x.provider = p}}

\* C8: getDefaultToken(provider) returns absent when the provider has no
\* record, the record when it has exactly one (whatever its account), and
\* with two or more the record named "default" if there is one and absent
\* otherwise; the answer is a function of the provider's own records, so
\* the records of other providers have no part in it.
C8_DefaultNeverGuesses ==
  ret.op = "getDefaultToken" =>
    LET own == RecordsOf(connections, ret.provider)
        named == {rec \in own : rec.account = "default"}
    IN  /\ Cardinality(own) = 0 => ret.result = NullRecord
        /\ Cardinality(own) = 1 => ret.result \in own
        /\ Cardinality(own) >= 2 /\ named # {} => ret.result \in named
        /\ Cardinality(own) >= 2 /\ named = {} => ret.result = NullRecord

\* two accounts, neither named "default", while another provider has a
\* "default" record: the answer is absent
C8_Witness ==
  /\ ret.op = "getDefaultToken"
  /\ Cardinality(RecordsOf(connections, ret.provider)) >= 2
  /\ \A rec \in RecordsOf(connections, ret.provider) : rec.account # "default"
  /\ \E r \in connections : r.provider # ret.provider /\ r.account = "default"
  /\ ret.result = NullRecord


\* ------------------------------------------------------- the OAuth routes
\* POST /auth/:provider/start
AuthStart(provider, account) ==
  IF getProvider(provider) = NullRecord
  THEN UNCHANGED vars
  ELSE /\ nextState < MaxStates
       /\ nextState' = nextState + 1
       /\ oauth_states' = saveOAuthState(oauth_states, now, nextState + 1, provider, account)
       /\ UNCHANGED <<now, connections, reqs, minted, cycles, timer, cbs, ret, node>>

\* request.query of the callback: code, state (0 when missing) and error
CallbackQuery(code, state, error) == [code |-> code, state |-> state, error |-> error]
CallbackQueries ==
  {CallbackQuery("c", s, UNDEFINED) : s \in 1..MaxStates}
  \cup {CallbackQuery(UNDEFINED, 0, "access_denied"), CallbackQuery("c", 0, UNDEFINED)}

\* the form body the callback posts to the token endpoint
ExchangeRequest(cfg, code) ==
  [ ev |-> "token", url |-> cfg.token_url, grant_type |-> "authorization_code",
    code |-> code, client_id |-> cfg.client_id, client_secret |-> cfg.client_secret ]

\* mutant: the provider of the state is not compared with the route's
CallbackBeginResult_AnyProvider(states, t, provider, q) ==
  LET stateData == consumeLookup(states, q.state)
      found == {r \in states : r.state = q.state}
      providerCfg == getProvider(provider)
      base == [IdleCb EXCEPT !.provider = provider, !.state = q.state]
      consumed == [base EXCEPT !.stateData = stateData,
                               !.age = IF found = {} THEN None
                                       ELSE Some(t - (CHOOSE r \in found : TRUE).created_at),
                               !.log = <<[ev |-> "consumeOAuthState", state |-> q.state]>>]
  IN  IF Truthy(q.error)
      THEN [base EXCEPT !.pc = "done", !.reply = Reply(400, "OAuthError")]
      ELSE IF ~Truthy(q.code) \/ q.state = 0
      THEN [base EXCEPT !.pc = "done", !.reply = Reply(400, "MissingCodeOrState")]
      ELSE IF stateData = NullRecord
      THEN [consumed EXCEPT !.pc = "done", !.reply = Reply(400, "InvalidState")]
      ELSE [consumed EXCEPT !.pc = "exchanging",
                            !.log = Append(consumed.log, ExchangeRequest(providerCfg, q.code))]

\* GET /auth/:provider/callback up to its fetch of the token endpoint
CallbackBeginResult(states, t, provider, q) ==
  LET stateData == consumeLookup(states, q.state)
      found == {r \in states : r.state = q.state}
      providerCfg == getProvider(provider)
      base == [IdleCb EXCEPT !.provider = provider, !.state = q.state]
      consumed == [base EXCEPT !.stateData = stateData,
                               !.age = IF found = {} THEN None
                                       ELSE Some(t - (CHOOSE r \in found : TRUE).created_at),
                               !.log = <<[ev |-> "consumeOAuthState", state |-> q.state]>>]
  IN  IF Truthy(q.error)
      THEN [base EXCEPT !.pc = "done", !.reply = Reply(400, "OAuthError")]
      ELSE IF ~Truthy(q.code) \/ q.state = 0
      THEN [base EXCEPT !.pc = "done", !.reply = Reply(400, "MissingCodeOrState")]
      ELSE IF stateData = NullRecord
      THEN [consumed EXCEPT !.pc = "done", !.reply = Reply(400, "InvalidState")]
      ELSE IF stateData.provider # provider
      THEN [consumed EXCEPT !.pc = "done", !.reply = Reply(400, "InvalidState")]
      ELSE IF providerCfg = NullRecord
      THEN [consumed EXCEPT !.pc = "done", !.reply = Reply(404, "UnknownProvider")]
      ELSE [consumed EXCEPT !.pc = "exchanging",
                            !.log = Append(consumed.log, ExchangeRequest(providerCfg, q.code))]

\* mutant: the state is deleted only once its provider matched the route's
CallbackBegin_CheckFirst(c, provider, q) ==
  /\ cbs[c].pc = "idle"
  /\ \A d \in CbSlots : d < c => cbs[d].pc # "idle"
  /\ cbs' = [cbs EXCEPT ![c] = CallbackBeginResult(oauth_states, now, provider, q)]
  /\ oauth_states' = IF Truthy(q.error) \/ ~Truthy(q.code) \/ q.state = 0 THEN oauth_states
                     ELSE IF consumeLookup(oauth_states, q.state) # NullRecord
                             /\ consumeLookup(oauth_states, q.state).provider # provider
                     THEN oauth_states
                     ELSE consumeDelete(oauth_states, q.state)
  /\ UNCHANGED <<now, connections, reqs, minted, cycles, timer, nextState, ret, node>>

CallbackBegin(c, provider, q) ==
  /\ cbs[c].pc = "idle"
  /\ \A d \in CbSlots : d < c => cbs[d].pc # "idle"
  /\ cbs' = [cbs EXCEPT ![c] = CallbackBeginResult(oauth_states, now, provider, q)]
  /\ oauth_states' = IF Truthy(q.error) \/ ~Truthy(q.code) \/ q.state = 0 THEN oauth_states
                     ELSE consumeDelete(oauth_states, q.state)
  /\ UNCHANGED <<now, connections, reqs, minted, cycles, timer, nextState, ret, node>>

\* the IV storeToken draws for the refresh token it encrypts
ExchangeNonces == {1}

\* what the token endpoint may answer to the code exchange
ExchangeResponses(n) ==
  {[kind |-> "neterr", status |-> 0, access_token |-> UNDEFINED, refresh_token |-> UNDEFINED,
    expires_in |-> None],
   [kind |-> "http", status |-> 400, access_token |-> UNDEFINED, refresh_token |-> UNDEFINED,
    expires_in |-> None]}
  \cup [kind : {"http"}, status : {200}, access_token : {TokenNames[n]},
        refresh_token : {UNDEFINED, PlainTexts[NPlain]}, expires_in : ExpiresIn]

\* the token endpoint answered the code exchange: the rest of the callback
CallbackExchanged(c, resp, iv) ==
  LET cb == cbs[c]
      expiresAt == IF resp.expires_in = None \/ resp.expires_in = Some(0) THEN None
                   ELSE Some(now + resp.expires_in[1])
      stored == [ ev |-> "storeToken", provider |-> cb.provider,
                  account |-> cb.stateData.account, refreshToken |-> resp.refresh_token,
                  accessToken |-> resp.access_token, expiresAt |-> expiresAt ]
  IN  /\ cb.pc = "exchanging"
      /\ IF ~ResponseOk(resp)
         THEN /\ cbs' = [cbs EXCEPT ![c] = [cb EXCEPT !.pc = "done", !.tokenResp = resp,
                                                      !.reply = Reply(500, "TokenExchangeFailed")]]
              /\ UNCHANGED connections
         ELSE IF ~Truthy(resp.refresh_token)
         THEN /\ cbs' = [cbs EXCEPT ![c] = [cb EXCEPT !.pc = "done", !.tokenResp = resp,
                                                      !.reply = Reply(500, "NoRefreshToken")]]
              /\ UNCHANGED connections
         ELSE /\ connections' = storeToken(connections, now, cb.provider, cb.stateData.account,
                                           resp.refresh_token, iv, BindValue(resp.access_token),
                                           expiresAt, "scope")
              /\ cbs' = [cbs EXCEPT ![c] = [cb EXCEPT !.pc = "done", !.reply = Reply(200, ""),
                                                      !.tokenResp = resp,
                                                      !.log = Append(cb.log, stored)]]

CallbackTokenResponse(c) ==
  /\ minted < MaxMint
  /\ \E resp \in ExchangeResponses(minted + 1), iv \in ExchangeNonces :
       /\ CallbackExchanged(c, resp, iv)
       /\ minted' = IF ResponseOk(resp) THEN minted + 1 ELSE minted
  /\ UNCHANGED <<now, oauth_states, reqs, cycles, timer, nextState, ret, node>>

\* the (provider, account) pairs handshakes are started for
StartRequests == {<<"oura", "a">>, <<"gcal", "default">>, <<"nope", "a">>}
CallbackProviders == {"oura", "gcal"}

InitOAuth ==
  /\ InitCommon
  /\ connections = {}

NextOAuth ==
  \/ AdvanceTime
  \/ \E pa \in StartRequests : AuthStart(pa[1], pa[2])
  \/ \E c \in CbSlots, p \in CallbackProviders, q \in CallbackQueries : CallbackBegin(c, p, q)
  \/ \E c \in CbSlots : CallbackTokenResponse(c)

SpecOAuth == InitOAuth /\ [][NextOAuth]_vars

\* the callbacks whose consumeOAuthState(s) returned the binding of s
Winners(s) == {c \in CbSlots : cbs[c].state = s /\ cbs[c].stateData # NullRecord}
\* the callbacks that called consumeOAuthState(s)
Consumers(s) == {c \in CbSlots : cbs[c].state = s /\ cbs[c].log # << >>}

\* C5: a handshake state is consumed at most once: of all the calls of
\* consumeOAuthState(s) for a state s that was saved once, exactly one
\* returns the bound {provider, account}, the row is gone from then on, and
\* every other call returns absent.
C5_ConsumedOnce ==
  \A s \in 1..MaxStates :
    /\ Cardinality(Winners(s)) <= 1
    /\ s <= nextState =>
         (Cardinality(Winners(s)) = 1 <=> \A r \in oauth_states : r.state # s)
    /\ \A c \in Winners(s) :
         \E pa \in StartRequests : cbs[c].stateData = [provider |-> pa[1], account |-> pa[2]]

\* two callbacks presented the same state: one was given the binding and
\* the other was turned away
C5_Witness ==
  \E s \in 1..MaxStates :
    /\ Cardinality(Consumers(s)) = 2
    /\ Cardinality(Winners(s)) = 1
    /\ \E c \in Consumers(s) \ Winners(s) :
         /\ cbs[c].reply = Reply(400, "InvalidState")
         /\ \E w \in Winners(s) : w < c

\* C6: a handshake state older than 600 seconds is invalid although no
\* sweep has removed it: consumeOAuthState does not return its binding, and
\* the callback presenting it answers invalid state and stores no token.
C6_ExpiredStateInvalid ==
  \A c \in CbSlots :
    (cbs[c].age # None /\ cbs[c].age[1] > STATE_TTL_SEC) =>
      /\ cbs[c].stateData = NullRecord
      /\ cbs[c].reply = Reply(400, "InvalidState")
      /\ \A i \in 1..Len(cbs[c].log) : cbs[c].log[i].ev # "storeToken"


\* --------------------------------------------------- the background refresh
\* refreshToken of the refresh loop after the response: throws (NullRecord)
\* or returns
\* mutant: the scheduler's default lifetime is its own threshold
refreshToken_ShortDefault(resp, t) ==
  IF ~ResponseOk(resp) THEN NullRecord
  ELSE [ accessToken |-> resp.access_token,
         expiresAt |-> t + (IF resp.expires_in = None THEN REFRESH_THRESHOLD_SEC
                            ELSE resp.expires_in[1]) ]

\* the form body refreshToken of the scheduler posts to the token endpoint
refreshTokenRequest(cfg, token) ==
  [ ev |-> "token", url |-> cfg.token_url, grant_type |-> "refresh_token",
    refresh_token |-> token, client_id |-> cfg.client_id,
    client_secret |-> cfg.client_secret ]

refreshToken(resp, t) ==
  IF ~ResponseOk(resp) THEN NullRecord
  ELSE [ accessToken |-> resp.access_token,
         expiresAt |-> t + (IF resp.expires_in = None THEN DEFAULT_EXPIRES_IN
                            ELSE resp.expires_in[1]) ]

\* the rows of a SELECT without ORDER BY, in any order
Orderings(S) ==
  {q \in [1..Cardinality(S) -> S] : \A i, j \in 1..Cardinality(S) : i # j => q[i] # q[j]}

\* the for loop of runRefreshCycle from token i on: records of unregistered
\* providers are skipped; the index of the next record to refresh, 0 at the end
RECURSIVE NextToRefresh(_, _)
NextToRefresh(tokens, i) ==
  IF i > Len(tokens) THEN 0
  ELSE IF getProvider(tokens[i].provider) = NullRecord THEN NextToRefresh(tokens, i + 1)
  ELSE i

\* the cycle runs on until its next fetch of a token endpoint, or returns
ContinueCycle(cycle, i) ==
  LET j == NextToRefresh(cycle.tokens, i)
  IN  IF j = 0 THEN [cycle EXCEPT !.pc = "done", !.idx = 0]
      ELSE [cycle EXCEPT !.pc = "refreshing", !.idx = j,
              !.log = Append(cycle.log,
                             refreshTokenRequest(getProvider(cycle.tokens[j].provider),
                                                 cycle.tokens[j].refreshToken))]

\* runRefreshCycle up to its first network await, on the rows as read
\* A row that cannot be decrypted makes rowToRecord throw inside
\* getTokensNeedingRefresh: the promise of the cycle rejects before the loop.
runRefreshCycle(rows, t) ==
  IF \E i \in DOMAIN rows : IsError(Decoded(rows[i]))
  THEN [IdleCycle EXCEPT !.pc = "rejected", !.started = t]
  ELSE ContinueCycle([IdleCycle EXCEPT !.tokens = [i \in DOMAIN rows |-> rowToRecord(rows[i])],
                                       !.started = t], 1)

\* the model follows one run of runRefreshCycle per slot
FreeSlots == {c \in CycleSlots : cycles[c].pc = "idle"}

StartCycle ==
  /\ FreeSlots # {}
  /\ \E rows \in Orderings(getTokensNeedingRefresh(connections, now, REFRESH_THRESHOLD_SEC)) :
       LET c == CHOOSE x \in FreeSlots : \A y \in FreeSlots : x <= y
       IN  cycles' = [cycles EXCEPT ![c] = runRefreshCycle(rows, now)]

\* mutant: the loop is started without a look at _timer
startRefreshLoop_Unguarded ==
  /\ StartCycle
  /\ timer' = Some(node.handles + 1)
  /\ node' = [node EXCEPT !.handles = @ + 1,
                          !.intervals = @ \cup {[id |-> node.handles + 1,
                                                 next |-> now + REFRESH_INTERVAL_SEC]}]
  /\ UNCHANGED <<now, connections, oauth_states, reqs, minted, cbs, nextState, ret>>

\* a call while _timer is set returns at once
startRefreshLoop ==
  IF timer # None THEN UNCHANGED vars
  ELSE /\ StartCycle
       /\ timer' = Some(node.handles + 1)
       /\ node' = [node EXCEPT !.handles = @ + 1,
                               !.intervals = @ \cup {[id |-> node.handles + 1,
                                                      next |-> now + REFRESH_INTERVAL_SEC]}]
       /\ UNCHANGED <<now, connections, oauth_states, reqs, minted, cbs, nextState, ret>>

stopRefreshLoop ==
  IF timer = None THEN UNCHANGED vars
  ELSE /\ node' = [node EXCEPT !.intervals = {i \in @ : i.id # timer[1]}]
       /\ timer' = None
       /\ UNCHANGED <<now, connections, oauth_states, reqs, minted, cycles, cbs, nextState, ret>>

\* the callback of setInterval: an active interval fires and is due again
\* one period later
Tick ==
  \E i \in node.intervals :
    /\ now = i.next
    /\ StartCycle
    /\ node' = [node EXCEPT !.intervals =
                  (@ \ {i}) \cup {[i EXCEPT !.next = now + REFRESH_INTERVAL_SEC]}]
    /\ UNCHANGED <<now, connections, oauth_states, reqs, minted, timer, cbs, nextState, ret>>

\* mutant: a record whose refresh failed is deleted
CycleRefreshed_DropFailed(c, resp, writeOk) ==
  LET cycle == cycles[c]
      token == cycle.tokens[cycle.idx]
      result == refreshToken(resp, now)
  IN  /\ cycle.pc = "refreshing"
      /\ IF result = NullRecord
         THEN /\ connections' = deleteToken(connections, token.provider, token.account)
              /\ cycles' = [cycles EXCEPT ![c] =
                   ContinueCycle([cycle EXCEPT !.log = Append(cycle.log,
                       [ev |-> "failed", provider |-> token.provider, account |-> token.account])],
                     cycle.idx + 1)]
         ELSE /\ connections' = updateAccessToken(connections, now, token.provider, token.account,
                                                  BindValue(result.accessToken), Some(result.expiresAt))
              /\ cycles' = [cycles EXCEPT ![c] =
                   ContinueCycle([cycle EXCEPT !.log = Append(cycle.log,
                       [ ev |-> "updateAccessToken", provider |-> token.provider,
                         account |-> token.account, accessToken |-> result.accessToken,
                         expiresAt |-> result.expiresAt ])],
                     cycle.idx + 1)]

\* the token endpoint answered a cycle: the write or the logged failure,
\* and the loop goes on.  writeOk is FALSE when updateAccessToken throws.
CycleRefreshed(c, resp, writeOk) ==
  LET cycle == cycles[c]
      token == cycle.tokens[cycle.idx]
      result == refreshToken(resp, now)
  IN  /\ cycle.pc = "refreshing"
      /\ IF result = NullRecord \/ ~writeOk
         THEN /\ UNCHANGED connections
              /\ cycles' = [cycles EXCEPT ![c] =
                   ContinueCycle([cycle EXCEPT !.log = Append(cycle.log,
                       [ev |-> "failed", provider |-> token.provider, account |-> token.account])],
                     cycle.idx + 1)]
         ELSE /\ connections' = updateAccessToken(connections, now, token.provider, token.account,
                                                  BindValue(result.accessToken), Some(result.expiresAt))
              /\ cycles' = [cycles EXCEPT ![c] =
                   ContinueCycle([cycle EXCEPT !.log = Append(cycle.log,
                       [ ev |-> "updateAccessToken", provider |-> token.provider,
                         account |-> token.account, accessToken |-> result.accessToken,
                         expiresAt |-> result.expiresAt ])],
                     cycle.idx + 1)]

\* the answers a cycle is given: those of TokenResponses that carry an
\* access token or fail
CycleResponses(n) ==
  {resp \in TokenResponses(n) : resp.access_token # UNDEFINED \/ ~ResponseOk(resp)}

CycleTokenResponse(c) ==
  /\ minted < MaxMint
  /\ \E resp \in CycleResponses(minted + 1), writeOk \in BOOLEAN :
       /\ ResponseOk(resp) \/ writeOk
       /\ CycleRefreshed(c, resp, writeOk)
       /\ minted' = IF resp.access_token = UNDEFINED THEN minted ELSE minted + 1
  /\ UNCHANGED <<now, oauth_states, reqs, timer, cbs, nextState, ret, node>>

SchedKeys == {<<"oura", "a">>, <<"oura", "b">>, <<"nope", "default">>}
\* expiry unknown, and exactly at the refresh threshold
SchedVariants == {<<"a1", None>>, <<"a1", Some(T0 + REFRESH_THRESHOLD_SEC)>>}

\* a row written under another ENCRYPTION_KEY: its auth tag does not verify
Undecryptable(row) ==
  [row EXCEPT !.refresh_token_encrypted.tag = (@ + 1) % (NPlain + 2)]

\* the stores of the family, each as it is and with one row undecryptable
WithUndecryptable(stores) ==
  stores \cup UNION {{(S \ {row}) \cup {Undecryptable(row)} : row \in S} : S \in stores}

InitSched ==
  /\ InitCommon
  /\ connections \in WithUndecryptable(StoreFamily(SchedKeys, SchedVariants, MaxRecords))

\* the loop is started when the server starts: time passes from then on
LoopTime == timer # None /\ AdvanceTime

NextSched ==
  \/ LoopTime
  \/ startRefreshLoop
  \/ Tick
  \/ \E c \in CycleSlots : CycleTokenResponse(c)

SpecSched == InitSched /\ [][NextSched]_vars

\* the cycles awaiting a token endpoint, and the record each is refreshing
InFlight == {c \in CycleSlots : cycles[c].pc = "refreshing"}
Refreshing(c) ==
  <<cycles[c].tokens[cycles[c].idx].provider, cycles[c].tokens[cycles[c].idx].account>>

\* C1: no two refresh cycles run concurrently: a tick that fires while a
\* cycle is still in flight starts no second cycle, so no two cycles are
\* ever refreshing the same (provider, account) record at the same time.
C1_NoConcurrentCycles ==
  \A c, d \in InFlight : c # d => Refreshing(c) # Refreshing(d)


C12_UnknownProviderUntouched ==
  [][\A r \in ReqSlots :
       (/\ reqs[r].pc = "idle"
        /\ reqs'[r].pc # "idle"
        /\ requireApiKey(reqs'[r].headers) = 0
        /\ getProvider(reqs'[r].provider) = NullRecord)
       => /\ reqs'[r].pc = "done"
          /\ reqs'[r].reply = [code |-> 404, error |-> "UnknownProvider"]
          /\ reqs'[r].log = << >>
          /\ connections' = connections
          /\ oauth_states' = oauth_states]_vars

\* an unregistered slug asked for while the store holds records
C12_Witness ==
  \E r \in ReqSlots :
    /\ reqs[r].pc = "done"
    /\ reqs[r].provider = "nope"
    /\ reqs[r].reply = [code |-> 404, error |-> "UnknownProvider"]
    /\ reqs[r].log = << >>
    /\ connections # {}

\* C13: a record whose expiresAt is null counts as immediately stale for
\* every consumer: getTokensNeedingRefresh selects it whatever the
\* threshold, and a proxy request that resolves to it calls the token
\* endpoint before it forwards, also when the record holds an access token.
C13_NullExpiryStale ==
  /\ \A row \in connections :
       row.expires_at = None =>
         \A th \in {0, REFRESH_THRESHOLD_SEC} : row \in getTokensNeedingRefresh(connections, now, th)
  /\ \A r \in ReqSlots :
       (reqs[r].resolved # NullRecord /\ reqs[r].resolved.expiresAt = None)
         => Len(Events(reqs[r], "token")) >= 1


\* ------------------------------------------------- the writes of the store
\* storeToken, updateAccessToken, deleteToken and getTokensNeedingRefresh
\* called directly while time passes; ret holds the last call.
WriteKeys == {<<"oura", "a">>, <<"gcal", "a">>}
\* expiry unknown, just inside and exactly at the refresh threshold
WriteVariants ==
  {<<"a1", None>>, <<"a1", Some(T0 + REFRESH_THRESHOLD_SEC - 1)>>,
   <<"a1", Some(T0 + REFRESH_THRESHOLD_SEC)>>}

\* the params of storeToken: all of them, or only the required ones
StoreParams ==
  {[refreshToken |-> "r3", accessToken |-> "a2", expiresAt |-> Some(T0 + DEFAULT_EXPIRES_IN),
    scopes |-> "s2"],
   [refreshToken |-> "r2", accessToken |-> UNDEFINED, expiresAt |-> None, scopes |-> UNDEFINED]}

\* params.x ?? null
OrNull(v) == IF v = UNDEFINED THEN NULL ELSE v

CallStoreTokenWith(p, a, params, iv) ==
  /\ connections' = storeToken(connections, now, p, a, params.refreshToken, iv,
                               OrNull(params.accessToken), params.expiresAt, OrNull(params.scopes))
  /\ ret' = [op |-> "storeToken", provider |-> p, account |-> a, params |-> params]
  /\ UNCHANGED <<now, oauth_states, reqs, minted, cycles, timer, cbs, nextState, node>>

CallUpdateAccessToken(p, a, accessToken, expiresAt) ==
  /\ connections' = updateAccessToken(connections, now, p, a, accessToken, Some(expiresAt))
  /\ ret' = [op |-> "updateAccessToken", provider |-> p, account |-> a,
             accessToken |-> accessToken, expiresAt |-> expiresAt]
  /\ UNCHANGED <<now, oauth_states, reqs, minted, cycles, timer, cbs, nextState, node>>

Thresholds == {0, REFRESH_THRESHOLD_SEC}

CallGetTokensNeedingRefresh(thresholdSec) ==
  /\ ret' = [op |-> "getTokensNeedingRefresh", threshold |-> thresholdSec, at |-> now,
             result |-> {rowToRecord(r) : r \in getTokensNeedingRefresh(connections, now, thresholdSec)}]
  /\ UNCHANGED <<now, connections, oauth_states, reqs, minted, cycles, timer, cbs, nextState, node>>

InitWrites ==
  /\ InitCommon
  /\ connections \in StoreFamily(WriteKeys, WriteVariants, MaxRecords)

NextWrites ==
  \/ AdvanceTime
  \/ \E k \in WriteKeys, params \in StoreParams, iv \in ExchangeNonces :
       CallStoreTokenWith(k[1], k[2], params, iv)
  \/ \E k \in WriteKeys : CallUpdateAccessToken(k[1], k[2], "a3", T0 + REFRESH_THRESHOLD_SEC)
  \/ \E k \in WriteKeys : CallDeleteToken(k[1], k[2])
  \/ \E th \in Thresholds : CallGetTokensNeedingRefresh(th)

SpecWrites == InitWrites /\ [][NextWrites]_vars

\* the rows of a (provider, account) pair
Keyed(conns, p, a) == {r \in conns : r.provider = p /\ r.account = a}
SameKey(r, q) == r.provider = q.provider /\ r.account = q.account

\* C14: updateAccessToken(provider, account, accessToken, expiresAt) is a
\* partial update: on the addressed record only accessToken, expiresAt and
\* updatedAt change, refreshToken, scopes and createdAt stay, and every
\* other record is left as it was.
C14_PartialUpdate ==
  [][(ret'.op = "updateAccessToken" /\ now' = now) =>
       /\ \A r \in connections :
            IF r.provider = ret'.provider /\ r.account = ret'.account
            THEN \E q \in connections' :
                   /\ SameKey(r, q)
                   /\ decrypt(q.refresh_token_encrypted) = decrypt(r.refresh_token_encrypted)
                   /\ q.refresh_token_encrypted = r.refresh_token_encrypted
                   /\ q.scopes = r.scopes
                   /\ q.created_at = r.created_at
                   /\ q.access_token = ret'.accessToken
                   /\ q.expires_at = Some(ret'.expiresAt)
            ELSE r \in connections'
       /\ \A q \in connections' : \E r \in connections : SameKey(r, q)]_vars

\* a record stored with refresh token r3 and then updated, next to another
\* record that still has its own access token
C14_Witness ==
  /\ ret.op = "updateAccessToken"
  /\ \E r \in Keyed(connections, ret.provider, ret.account) :
       /\ r.access_token = "a3"
       /\ decrypt(r.refresh_token_encrypted) = "r3"
       /\ r.scopes = "s2"
       /\ r.created_at < r.updated_at
  /\ \E r \in connections : r.provider # ret.provider /\ r.access_token # "a3"

\* C15: there is at most one record per (provider, account); a storeToken
\* on an existing pair replaces refreshToken, accessToken, expiresAt and
\* scopes by the values of the call, an omitted optional value becoming
\* null, and sets updatedAt to the time of the call; and in no step does a
\* record that exists before and after change its createdAt.
C15_UpsertKeepsCreatedAt ==
  [][/\ \A r, q \in connections' : SameKey(r, q) => r = q
     /\ \A r \in connections, q \in connections' : SameKey(r, q) => q.created_at = r.created_at
     /\ (ret'.op = "storeToken" /\ now' = now) =>
          \E q \in Keyed(connections', ret'.provider, ret'.account) :
            /\ decrypt(q.refresh_token_encrypted) = ret'.params.refreshToken
            /\ q.access_token = IF ret'.params.accessToken = UNDEFINED THEN NULL
                                ELSE ret'.params.accessToken
            /\ q.expires_at = ret'.params.expiresAt
            /\ q.scopes = IF ret'.params.scopes = UNDEFINED THEN NULL ELSE ret'.params.scopes
            /\ q.updated_at = now
            /\ Keyed(connections, ret'.provider, ret'.account) = {} => q.created_at = now]_vars

\* a record written a second time with only the required values, later
\* than it was created
C15_Witness ==
  /\ ret.op = "storeToken"
  /\ ret.params.accessToken = UNDEFINED
  /\ \E r \in Keyed(connections, ret.provider, ret.account) :
       /\ r.access_token = NULL /\ r.expires_at = None /\ r.scopes = NULL
       /\ decrypt(r.refresh_token_encrypted) = "r2"
       /\ r.created_at = T0 - 100
       /\ r.updated_at > T0

\* C16: getTokensNeedingRefresh(thresholdSeconds) returns exactly the
\* records whose expiresAt is null or strictly less than now +
\* thresholdSeconds, each with its refresh token decrypted.
C16_ExactlyTheDue ==
  ret.op = "getTokensNeedingRefresh" =>
    /\ \A r \in connections :
         (r.expires_at = None \/ r.expires_at[1] < ret.at + ret.threshold)
           <=> \E rec \in ret.result :
                 /\ rec.provider = r.provider /\ rec.account = r.account
                 /\ rec.accessToken = r.access_token /\ rec.expiresAt = r.expires_at
                 /\ rec.refreshToken = decrypt(r.refresh_token_encrypted)
                 /\ rec.refreshToken \in {PlainTexts[i] : i \in 1..NPlain}
    /\ \A rec \in ret.result :
         \E r \in connections : rec.provider = r.provider /\ rec.account = r.account

\* one record 599 seconds from expiry is returned and one exactly 600
\* seconds from expiry is not
C16_Witness ==
  /\ ret.op = "getTokensNeedingRefresh"
  /\ ret.threshold = REFRESH_THRESHOLD_SEC
  /\ \E r, q \in connections :
       /\ r.expires_at = Some(ret.at + REFRESH_THRESHOLD_SEC - 1)
       /\ q.expires_at = Some(ret.at + REFRESH_THRESHOLD_SEC)
       /\ \E rec \in ret.result : rec.account = r.account /\ rec.provider = r.provider
       /\ \A rec \in ret.result : ~(rec.account = q.account /\ rec.provider = q.provider)


\* --------------------------------------------- more claims on the scheduler
\* the tokens of a cycle whose provider is registered
KnownTokens(cycle) ==
  {i \in DOMAIN cycle.tokens : getProvider(cycle.tokens[i].provider) # NullRecord}

\* the rows a cycle starting now has to refresh: due, of a registered provider
Candidates(conns, t) ==
  {r \in getTokensNeedingRefresh(conns, t, REFRESH_THRESHOLD_SEC) :
     getProvider(r.provider) # NullRecord}

\* C17: a failure on one record does not cost the other candidates of the
\* cycle their refresh attempt: whatever fails for a record (exchange
\* rejected, network failure, failed store write, refresh token that cannot
\* be decrypted), a cycle that starts takes up every other candidate record
\* of a registered provider, and once it is over it has called the token
\* endpoint for each of them.
C17_FailuresNonFatal ==
  [][\A c \in CycleSlots :
       /\ (cycles[c].pc = "idle" /\ cycles'[c].pc # "idle") =>
            \A r \in Candidates(connections, now) :
              ~IsError(Decoded(r)) =>
                \E i \in DOMAIN cycles'[c].tokens :
                  /\ cycles'[c].tokens[i].provider = r.provider
                  /\ cycles'[c].tokens[i].account = r.account
       /\ cycles'[c].pc = "done" =>
            Len(Events(cycles'[c], "token")) = Cardinality(KnownTokens(cycles'[c]))]_vars

\* the rows of conns that are not in after, by key
RowsChanged(conns, after) == {r \in conns : r \notin after}

\* C18: the scheduler neither removes nor creates a record: no step of a
\* cycle changes the set of (provider, account) pairs; the only rows a step
\* changes are the row of the record a cycle is refreshing, in the step
\* that ends a successful exchange, and then only in access_token,
\* expires_at and updated_at; a failed refresh leaves the table as it was;
\* and a record of an unregistered provider gets no token-endpoint call and
\* no write.
C18_SchedulerOnlyUpdates ==
  [][/\ {<<r.provider, r.account>> : r \in connections'}
        = {<<r.provider, r.account>> : r \in connections}
     /\ \A r \in RowsChanged(connections, connections') :
          \E c \in CycleSlots :
            /\ cycles[c].pc = "refreshing"
            /\ cycles[c].tokens[cycles[c].idx].provider = r.provider
            /\ cycles[c].tokens[cycles[c].idx].account = r.account
            /\ Len(Events(cycles'[c], "updateAccessToken"))
                 = Len(Events(cycles[c], "updateAccessToken")) + 1
            /\ Len(Events(cycles'[c], "failed")) = Len(Events(cycles[c], "failed"))
            /\ \E q \in connections' :
                 q = [r EXCEPT !.access_token = q.access_token, !.expires_at = q.expires_at,
                               !.updated_at = q.updated_at]
     /\ \A c \in CycleSlots :
          /\ Len(Events(cycles'[c], "failed")) > Len(Events(cycles[c], "failed"))
               => connections' = connections
          /\ \A i \in 1..Len(cycles'[c].log) :
               cycles'[c].log[i].ev \in {"updateAccessToken", "failed"}
                 => getProvider(cycles'[c].log[i].provider) # NullRecord
          /\ Len(Events(cycles'[c], "token")) <= Cardinality(KnownTokens(cycles'[c]))]_vars

\* a finished cycle that skipped a record of an unregistered provider and
\* failed to refresh another: both records are still in the table
C18_Witness ==
  \E c \in CycleSlots :
    /\ cycles[c].pc = "done"
    /\ \E i \in DOMAIN cycles[c].tokens : cycles[c].tokens[i].provider = "nope"
    /\ Len(Events(cycles[c], "failed")) = 1
    /\ Len(Events(cycles[c], "token")) = 1
    /\ \E r \in connections : r.provider = "nope" /\ r.updated_at = T0 - 100
    /\ \E r \in connections : r.provider = "oura" /\ r.updated_at = T0 - 100


\* ------------------------------------------------------- racing refreshes
\* One record that both the proxy and the scheduler find due, two proxy
\* requests for it and the refresh loop, all in flight together.
RaceVariants == {<<NULL, None>>, <<"a1", Some(T0 + 100)>>}

InitRace ==
  /\ InitCommon
  /\ \E v \in RaceVariants : connections = {InitRow(<<"oura", "a">>, v)}

\* the requests arrive in the order of their slots
RaceBegin(r) ==
  /\ \A q \in ReqSlots : q < r => reqs[q].pc # "idle"
  /\ ProxyBegin(r, "oura", << >>, AuthHeaders)

NextRace ==
  \/ \E r \in ReqSlots : RaceBegin(r)
  \/ \E r \in ReqSlots : ProxyRefreshResponse(r)
  \/ \E r \in ReqSlots : ProxyUpstreamResponse(r, 200)
  \/ startRefreshLoop
  \/ \E c \in CycleSlots : CycleTokenResponse(c)

SpecRace == InitRace /\ [][NextRace]_vars

\* the updateAccessToken calls made so far, by the requests and the cycles
Writes ==
  UNION {{Events(reqs[r], "updateAccessToken")[i] :
            i \in 1..Len(Events(reqs[r], "updateAccessToken"))} : r \in ReqSlots}
  \cup UNION {{Events(cycles[c], "updateAccessToken")[i] :
            i \in 1..Len(Events(cycles[c], "updateAccessToken"))} : c \in CycleSlots}

\* a pair of access token and expiry is the initial one or one a refresh wrote
WrittenTogether(writes, p, a, accessToken, expiresAt, updatedAt) ==
  \/ updatedAt = T0 - 100
  \/ \E e \in writes :
       /\ e.provider = p /\ e.account = a
       /\ accessToken = (IF e.accessToken = UNDEFINED THEN NULL ELSE e.accessToken)
       /\ expiresAt = Some(e.expiresAt)

\* the write a step made: the update event a log gained in it
Gained(before, after) ==
  IF Len(Events(after, "updateAccessToken")) > Len(Events(before, "updateAccessToken"))
  THEN {Events(after, "updateAccessToken")[Len(Events(after, "updateAccessToken"))]}
  ELSE {}

\* C19: when refreshes of one (provider, account) race, the stored access
\* token and expiry are at every moment the pair of the updateAccessToken
\* that ran last: the step of a write leaves exactly its pair in the row,
\* no other step changes them, no record read by a request or a cycle
\* combines the token of one refresh with the expiry of another, and the
\* stored refresh token stays what it was.
C19_LastWriteWins ==
  [][LET gained == UNION ({Gained(reqs[r], reqs'[r]) : r \in ReqSlots}
                          \cup {Gained(cycles[c], cycles'[c]) : c \in CycleSlots})
     IN  /\ \A e \in gained : \A q \in Keyed(connections', e.provider, e.account) :
              /\ q.access_token = (IF e.accessToken = UNDEFINED THEN NULL ELSE e.accessToken)
              /\ q.expires_at = Some(e.expiresAt)
         /\ gained = {} => connections' = connections
         /\ \A r \in connections : \E q \in connections' :
              SameKey(r, q) /\ q.refresh_token_encrypted = r.refresh_token_encrypted
         /\ \A q \in connections' :
              WrittenTogether(Writes', q.provider, q.account, q.access_token, q.expires_at,
                              q.updated_at)
         /\ \A r \in ReqSlots :
              reqs'[r].resolved # NullRecord =>
                WrittenTogether(Writes', reqs'[r].resolved.provider, reqs'[r].resolved.account,
                                reqs'[r].resolved.accessToken, reqs'[r].resolved.expiresAt,
                                reqs'[r].resolved.updatedAt)
         /\ \A c \in CycleSlots : \A i \in DOMAIN cycles'[c].tokens :
              WrittenTogether(Writes', cycles'[c].tokens[i].provider, cycles'[c].tokens[i].account,
                              cycles'[c].tokens[i].accessToken, cycles'[c].tokens[i].expiresAt,
                              cycles'[c].tokens[i].updatedAt)]_vars

\* a request and a cycle that both read the record before either wrote,
\* and both wrote: the row holds the pair of one of them
C19_Witness ==
  \E r \in ReqSlots, c \in CycleSlots :
    /\ reqs[r].resolved # NullRecord
    /\ reqs[r].resolved.updatedAt = T0 - 100
    /\ Len(Events(reqs[r], "updateAccessToken")) = 1
    /\ Len(cycles[c].tokens) = 1
    /\ cycles[c].tokens[1].updatedAt = T0 - 100
    /\ Len(Events(cycles[c], "updateAccessToken")) = 1
    /\ Events(reqs[r], "updateAccessToken")[1].expiresAt
         # Events(cycles[c], "updateAccessToken")[1].expiresAt
    /\ \A q \in connections : q.updated_at >= T0


\* C20: an access-token refresh leaves the stored refresh token as it was
\* unless the provider rotates it: when the refresh response carries a
\* refresh_token, the record's stored refresh token is that one after the
\* refresh, and otherwise it is unchanged.
C20_RotatedRefreshTokenStored ==
  [][\A r \in ReqSlots :
       (reqs[r].pc = "refreshing" /\ reqs'[r].pc = "forwarding") =>
         \A q \in Keyed(connections', reqs'[r].provider, reqs'[r].account) :
           IF reqs'[r].tokenResp.resp.refresh_token = UNDEFINED
           THEN q.refresh_token_encrypted \in
                  {row.refresh_token_encrypted : row \in connections}
           ELSE decrypt(q.refresh_token_encrypted) = reqs'[r].tokenResp.resp.refresh_token]_vars


\* ------------------------------------------------------------- process start
\* getKey: the key buffer, or the error it throws.  A 64-character value
\* passes the length test whatever its characters; Buffer.from(hex, 'hex')
\* then stops at the first character that is not hex, and the key is too
\* short for createCipheriv.  None: getKey throws; Some(0): the empty buffer.
getKey(kind) ==
  CASE kind \in {"unset", "short"} -> None
    [] kind = "nothex64" -> Some(0)
    [] OTHER -> Some(EncKey)

\* a key the cipher can work with
KeyUsable(kind) == getKey(kind) = Some(EncKey)

\* main: store.init() opens the database and runs the migration
MainStoreInit ==
  /\ node.main = "starting"
  /\ node' = [node EXCEPT !.main = "initialised"]
  /\ UNCHANGED <<now, connections, oauth_states, reqs, minted, cycles, timer, cbs, nextState, ret>>

\* main: the routes are registered and app.listen binds the port, or it
\* throws and main's catch ends the process
MainListen(bound) ==
  /\ node.main = "initialised"
  /\ node' = [node EXCEPT !.main = IF bound THEN "listening" ELSE "exited"]
  /\ UNCHANGED <<now, connections, oauth_states, reqs, minted, cycles, timer, cbs, nextState, ret>>

\* main: its last statement, once
MainStartLoop ==
  /\ node.main = "listening"
  /\ node.handles = 0
  /\ startRefreshLoop

\* a proxy request to the listening server
BootRequest(provider) ==
  /\ node.main = "listening"
  /\ ProxyBegin(1, provider, << >>, AuthHeaders)

\* The database of a process that never had a usable key holds no record:
\* storeToken encrypts before it inserts.
InitBoot ==
  /\ InitIdle
  /\ \E kind \in KeyKinds :
       /\ node = [ServingNode EXCEPT !.main = "starting", !.key = kind]
       /\ connections \in IF KeyUsable(kind)
                          THEN StoreFamily(SchedKeys, SchedVariants, MaxRecords)
                          ELSE {{}}

NextBoot ==
  \/ MainStoreInit
  \/ \E bound \in BOOLEAN : MainListen(bound)
  \/ MainStartLoop
  \/ \E p \in Slugs : BootRequest(p)
  \/ LoopTime
  \/ Tick
  \/ \E c \in CycleSlots : CycleTokenResponse(c)

SpecBoot == InitBoot /\ [][NextBoot]_vars

\* C21: a missing or malformed encryption key is fatal at process start:
\* while ENCRYPTION_KEY is absent or is not 64 hex characters the server
\* never listens, the refresh loop never runs and no request is served.
C21_InvalidKeyIsFatal ==
  ~KeyUsable(node.key) =>
    /\ node.main # "listening"
    /\ timer = None
    /\ node.intervals = {}
    /\ \A r \in ReqSlots : reqs[r].pc = "idle"

\* ------------------------------------------------- the proxy on a failing store
\* updateAccessToken throws (the database is busy, read-only or full): the
\* catch around the refresh step answers as it does for a failed exchange
ProxyWriteFails(r, resp) ==
  LET req == reqs[r]
      result == RefreshResult(resp, now)
  IN  /\ req.pc = "refreshing"
      /\ result # NullRecord
      /\ reqs' = [reqs EXCEPT ![r] =
           [req EXCEPT !.pc = "done", !.tokenResp = [resp |-> resp, at |-> now],
                       !.log = Append(req.log,
                          [ ev |-> "updateFailed", provider |-> req.provider,
                            account |-> req.account ]),
                       !.reply = Reply(401, "TokenRefreshFailed")]]
      /\ UNCHANGED connections

ProxyWriteFailure(r) ==
  /\ minted < MaxMint
  /\ \E resp \in CycleResponses(minted + 1) :
       /\ ProxyWriteFails(r, resp)
       /\ minted' = minted + 1
  /\ UNCHANGED <<now, oauth_states, cycles, timer, cbs, nextState, ret, node>>

FaultKeys == {<<"oura", "a">>, <<"oura", "default">>}
FaultVariants == {<<"a1", Some(T0 + DEFAULT_EXPIRES_IN)>>, <<NULL, None>>}
FaultQueries == {<< >>, << <<"account", "a">> >>}

InitFaults ==
  /\ InitCommon
  /\ connections \in WithUndecryptable(StoreFamily(FaultKeys, FaultVariants, MaxRecords))

NextFaults ==
  \/ \E q \in FaultQueries : ProxyBegin(1, "oura", q, AuthHeaders)
  \/ ProxyRefreshResponse(1)
  \/ ProxyWriteFailure(1)
  \/ \E st \in UpstreamStatuses \cup {0} : ProxyUpstreamResponse(1, st)

SpecFaults == InitFaults /\ [][NextFaults]_vars

\* the error kinds of a failing store
StoreFailureKinds == {"StorageUnavailable", "IntegrityError", "FormatError"}

\* a store read of the request threw
ReadFailed(req) ==
  \E i \in 1..Len(Reads(req)) :
    LET e == Reads(req)[i]
    IN  IF e.ev = "getToken" THEN IsError(getToken(connections, e.provider, e.account))
        ELSE IsError(getDefaultToken(connections, e.provider))

\* C22: the forwarder reports every failure with the kind of its cause:
\* TokenRefreshFailed only when the token endpoint rejected the refresh or
\* could not be reached, and a failure of the store in getToken,
\* getDefaultToken or updateAccessToken as a store or decryption failure,
\* never as TokenRefreshFailed, NoConnection or an unclassified error.
C22_FailuresByCause ==
  \A r \in ReqSlots :
    reqs[r].pc = "done" =>
      /\ reqs[r].reply.error = "TokenRefreshFailed" =>
            /\ reqs[r].tokenResp # NullRecord
            /\ RefreshFailure(reqs[r].tokenResp.resp)
      /\ (ReadFailed(reqs[r]) \/ Len(Events(reqs[r], "updateFailed")) > 0) =>
            reqs[r].reply.error \in StoreFailureKinds


\* ------------------------------------------------ more claims on the OAuth routes
StoreEvents(cb) == SelectSeq(cb.log, LAMBDA e : e.ev = "storeToken")

\* C23: the callback creates or replaces a record only on a code exchange
\* that succeeded and returned a refresh token, and then under exactly the
\* (provider, account) bound to the state it consumed; in every failure
\* case (error parameter, missing code or state, unknown, consumed or
\* provider-mismatched state, failed or non-2xx exchange, no refresh_token)
\* storeToken is not called and table connections is unchanged.
C23_CallbackStoresOnSuccess ==
  [][/\ \A c \in CbSlots :
          \* a callback goes on to the exchange only with the binding of its state
          /\ (cbs[c].pc = "idle" /\ cbs'[c].pc = "exchanging") =>
               \E row \in oauth_states :
                 /\ row.state = cbs'[c].state
                 /\ row.provider = cbs'[c].provider
                 /\ cbs'[c].stateData = [provider |-> row.provider, account |-> row.account]
          \* a callback ended in its first step stores nothing
          /\ (cbs[c].pc = "idle" /\ cbs'[c].pc = "done") =>
               /\ cbs'[c].reply.code # 200
               /\ Len(StoreEvents(cbs'[c])) = 0
               /\ connections' = connections
          \* the exchange came back
          /\ (cbs[c].pc = "exchanging" /\ cbs'[c].pc = "done") =>
               LET resp == cbs'[c].tokenResp
                   good == ResponseOk(resp) /\ resp.refresh_token \notin {UNDEFINED, NULL, ""}
               IN  IF good
                   THEN /\ Len(StoreEvents(cbs'[c])) = 1
                        /\ StoreEvents(cbs'[c])[1].provider = cbs[c].stateData.provider
                        /\ StoreEvents(cbs'[c])[1].account = cbs[c].stateData.account
                        /\ \E q \in connections' :
                             /\ q.provider = cbs[c].stateData.provider
                             /\ q.account = cbs[c].stateData.account
                             /\ decrypt(q.refresh_token_encrypted) = resp.refresh_token
                             /\ \A r \in connections : ~SameKey(r, q) => r \in connections'
                             /\ \A r \in connections' : ~SameKey(r, q) => r \in connections
                   ELSE /\ cbs'[c].reply.code # 200
                        /\ Len(StoreEvents(cbs'[c])) = 0
                        /\ connections' = connections
     /\ connections' # connections =>
          \E d \in CbSlots : cbs[d].pc = "exchanging" /\ cbs'[d].pc = "done"]_vars

\* one callback stored its record and another, whose exchange returned no
\* refresh token, stored none
C23_Witness ==
  \E c, d \in CbSlots :
    /\ cbs[c].reply = Reply(200, "")
    /\ Len(StoreEvents(cbs[c])) = 1
    /\ cbs[d].reply = Reply(500, "NoRefreshToken")
    /\ cbs[d].stateData # NullRecord
    /\ Cardinality(connections) = 1
    /\ \A q \in connections :
         q.provider = cbs[c].stateData.provider /\ q.account = cbs[c].stateData.account


\* ------------------------------------------------------- more claims on the store
ConnectionFields ==
  {"id", "provider", "account", "accessToken", "expiresAt", "scopes", "createdAt", "updatedAt"}

\* C27: listConnections returns one Connection per stored record, in
\* ascending order of (provider, account), and no Connection carries a
\* refresh token, in plaintext or encrypted.
C27_ListOrderedNoSecrets ==
  ret.op = "listConnections" =>
    /\ Len(ret.result) = Cardinality(connections)
    /\ \A row \in connections :
         \E i \in 1..Len(ret.result) :
           /\ ret.result[i].provider = row.provider
           /\ ret.result[i].account = row.account
           /\ ret.result[i].accessToken = row.access_token
           /\ ret.result[i].expiresAt = row.expires_at
    /\ \A i, j \in 1..Len(ret.result) :
         i < j =>
           \/ ProviderRank(ret.result[i].provider) < ProviderRank(ret.result[j].provider)
           \/ /\ ret.result[i].provider = ret.result[j].provider
              /\ AccountRank(ret.result[i].account) < AccountRank(ret.result[j].account)
    /\ \A i \in 1..Len(ret.result) :
         /\ DOMAIN ret.result[i] = ConnectionFields
         /\ \A row \in connections, f \in {"id", "provider", "account", "accessToken", "scopes"} :
              ret.result[i][f] # decrypt(row.refresh_token_encrypted)

\* three records of two providers, listed after writes and a delete:
\* (gcal, b) comes before (oura, a)
C27_Witness ==
  /\ ret.op = "listConnections"
  /\ Len(ret.result) = 3
  /\ ret.result[1].provider = "gcal" /\ ret.result[1].account \in {"b", "default"}
  /\ ret.result[2].provider = "oura" /\ ret.result[2].account = "a"
  /\ ret.result[3].provider = "oura"
  /\ \E r \in connections : r.created_at # r.updated_at \/ r.refresh_token_encrypted.iv = 2


\* ------------------------------------------------- the routes and the API key
\* A request as a client may send it: no Authorization header, Basic
\* credentials, a Bearer key that is not API_KEY, or the key itself.
GuardHeaders ==
  { << >>, [authorization |-> Scalar("Basic dXNlcjpwdw==")],
    [authorization |-> Scalar(BearerOf("wrong-key"))], AuthHeaders }

\* POST /auth/:provider/start as registerAuthRoutes registers it: the route
\* has no preHandler, the handler runs whatever the headers are
StartRequest(headers, provider, account) ==
  IF getProvider(provider) = NullRecord
  THEN /\ ret' = [op |-> "POST /auth/start", headers |-> headers, code |-> 404,
                  state |-> 0]
       /\ UNCHANGED <<now, connections, oauth_states, reqs, minted, cycles, timer, cbs, nextState, node>>
  ELSE /\ nextState < MaxStates
       /\ nextState' = nextState + 1
       /\ oauth_states' = saveOAuthState(oauth_states, now, nextState + 1, provider, account)
       /\ ret' = [op |-> "POST /auth/start", headers |-> headers, code |-> 200,
                  state |-> nextState + 1]
       /\ UNCHANGED <<now, connections, reqs, minted, cycles, timer, cbs, node>>

\* GET /connections, preHandler requireApiKey
ConnectionsRequest(headers) ==
  /\ ret' = IF requireApiKey(headers) # 0
            THEN [op |-> "GET /connections", headers |-> headers, code |-> 401]
            ELSE [op |-> "GET /connections", headers |-> headers, code |-> 200,
                  result |-> listConnections(connections)]
  /\ UNCHANGED <<now, connections, oauth_states, reqs, minted, cycles, timer, cbs, nextState, node>>

\* DELETE /connections/:provider/:account, preHandler requireApiKey
DeleteRequest(headers, p, a) ==
  /\ ret' = [op |-> "DELETE /connections", headers |-> headers,
             code |-> IF requireApiKey(headers) # 0 THEN 401 ELSE 200]
  /\ connections' = IF requireApiKey(headers) # 0 THEN connections
                    ELSE deleteToken(connections, p, a)
  /\ UNCHANGED <<now, oauth_states, reqs, minted, cycles, timer, cbs, nextState, node>>

GuardKeys == {<<"oura", "a">>, <<"oura", "default">>}
GuardVariants == {<<"a1", Some(T0 - 100)>>}

InitGuard ==
  /\ InitCommon
  /\ connections \in StoreFamily(GuardKeys, GuardVariants, MaxRecords)

NextGuard ==
  \/ \E h \in GuardHeaders, q \in FaultQueries : ProxyBegin(1, "oura", q, h)
  \/ ProxyRefreshResponse(1)
  \/ \E st \in {200, 0} : ProxyUpstreamResponse(1, st)
  \/ \E h \in GuardHeaders, p \in {"oura", "nope"} : StartRequest(h, p, "a")
  \/ \E h \in GuardHeaders : ConnectionsRequest(h)
  \/ \E h \in GuardHeaders : DeleteRequest(h, "oura", "a")

SpecGuard == InitGuard /\ [][NextGuard]_vars

\* C24: a request to the proxy, to POST /auth/:provider/start, to
\* GET /connections or to DELETE /connections that does not carry
\* Authorization: Bearer API_KEY is answered 401 and nothing is done for it:
\* no store read or write, no saveOAuthState, no fetch.
C24_ApiKeyRequired ==
  [][/\ \A r \in ReqSlots :
          (reqs[r].pc = "idle" /\ reqs'[r].pc # "idle" /\ requireApiKey(reqs'[r].headers) # 0)
            => /\ reqs'[r].pc = "done"
               /\ reqs'[r].reply.code = 401
               /\ reqs'[r].log = << >>
               /\ UNCHANGED <<connections, oauth_states, minted>>
     /\ (ret' # ret /\ requireApiKey(ret'.headers) # 0)
            => /\ ret'.code = 401
               /\ UNCHANGED <<connections, oauth_states, nextState>>
    ]_vars


\* ------------------------------------------------- the proxy's store writes
\* the write calls of a request: updateAccessToken, returned or thrown
WriteCalls(req) ==
  SelectSeq(req.log, LAMBDA e : e.ev \in {"updateAccessToken", "updateFailed"})

\* C25: a proxy request writes to the store at most once, by
\* updateAccessToken for its resolved (provider, account) after a successful
\* exchange; a request whose token is fresh writes nothing; no row is
\* inserted or deleted, no refresh token, created_at or scopes is changed,
\* and the handshake states are left alone.
C25_ProxyWritesOnlyOnRefresh ==
  [][/\ UNCHANGED <<oauth_states, nextState>>
     /\ \A r \in ReqSlots :
          /\ Len(WriteCalls(reqs'[r])) <= 1
          /\ WriteCalls(reqs'[r]) # << >> =>
               /\ Events(reqs'[r], "token") # << >>
               /\ shouldRefresh(reqs'[r].resolved, reqs'[r].nowSec)
               /\ ResponseOk(reqs'[r].tokenResp.resp)
               /\ WriteCalls(reqs'[r])[1].provider = reqs'[r].provider
               /\ WriteCalls(reqs'[r])[1].account = reqs'[r].resolved.account
          /\ (reqs[r].pc = "idle" /\ reqs'[r].pc = "forwarding") =>
               /\ ~shouldRefresh(reqs'[r].resolved, now)
               /\ connections' = connections
          /\ reqs'[r].pc = "done" /\ Events(reqs'[r], "token") = << >> =>
               WriteCalls(reqs'[r]) = << >>
     /\ connections' # connections =>
          \E r \in ReqSlots :
            /\ reqs[r].pc = "refreshing" /\ reqs'[r].pc = "forwarding"
            /\ WriteCalls(reqs[r]) = << >>
            /\ Len(Events(reqs'[r], "updateAccessToken")) = 1
            /\ {<<x.provider, x.account>> : x \in connections'}
                 = {<<x.provider, x.account>> : x \in connections}
            /\ \A x \in connections :
                 IF x.provider = reqs[r].provider /\ x.account = reqs[r].resolved.account
                 THEN \E y \in connections' :
                        /\ y = [x EXCEPT !.access_token = y.access_token,
                                         !.expires_at = y.expires_at,
                                         !.updated_at = y.updated_at]
                        /\ y.access_token = BindValue(reqs'[r].tokenResp.resp.access_token)
                 ELSE x \in connections'
    ]_vars

\* a request refreshed and wrote its row while another record is stored,
\* and went on to the upstream call
C25_Witness ==
  \E r \in ReqSlots :
    /\ reqs[r].pc = "done" /\ reqs[r].reply.code = 401 /\ reqs[r].upstreamStatus = Some(401)
    /\ Len(Events(reqs[r], "updateAccessToken")) = 1
    /\ Cardinality(connections) = 2
    /\ \E x \in connections :
         /\ x.provider = reqs[r].provider /\ x.account = reqs[r].resolved.account
         /\ x.access_token = reqs[r].tokenResp.resp.access_token


\* ------------------------------------- the scheduler ahead of the proxy
\* One record that holds an access token and is not yet within the proxy's
\* buffer: due at the first cycle, or exactly at the scheduler's threshold.
ProactiveVariants ==
  { <<"a1", Some(T0 + REFRESH_THRESHOLD_SEC - 100)>>, <<"a1", Some(T0 + REFRESH_THRESHOLD_SEC)>> }

\* the loop is running: time passes up to the next firing of the interval.
\* The token endpoint answers well within a period: no exchange of a cycle
\* is left waiting.
ToNextTick ==
  /\ now < T0 + MaxAdvance * REFRESH_INTERVAL_SEC
  /\ \A c \in CycleSlots : cycles[c].pc # "refreshing"
  /\ \E i \in node.intervals :
       /\ now < i.next
       /\ \A j \in node.intervals : i.next <= j.next
       /\ now' = i.next
  /\ UNCHANGED <<connections, oauth_states, reqs, minted, cycles, timer, cbs, nextState, ret, node>>

\* a second passes while a cycle that has just begun awaits the token
\* endpoint
Latency ==
  /\ \E c \in CycleSlots : cycles[c].pc = "refreshing" /\ cycles[c].started = now
  /\ now' = now + 1
  /\ UNCHANGED <<connections, oauth_states, reqs, minted, cycles, timer, cbs, nextState, ret, node>>

\* the token endpoint answers a cycle with a token, and the write succeeds
CycleSucceeds(c) ==
  /\ minted < MaxMint
  /\ \E resp \in {x \in CycleResponses(minted + 1) : ResponseOk(x)} :
       CycleRefreshed(c, resp, TRUE)
  /\ minted' = minted + 1
  /\ UNCHANGED <<now, oauth_states, reqs, timer, cbs, nextState, ret, node>>

\* a request that arrives once the loop has been started
ProactiveRequest == timer # None /\ ProxyBegin(1, "oura", << >>, AuthHeaders)

InitProactive ==
  /\ InitCommon
  /\ connections \in StoreFamily({<<"oura", "default">>}, ProactiveVariants, 1) \ {{}}

NextProactive ==
  \/ startRefreshLoop
  \/ ToNextTick
  \/ Tick
  \/ Latency
  \/ \E c \in CycleSlots : CycleSucceeds(c)
  \/ ProactiveRequest
  \/ ProxyRefreshResponse(1)
  \/ \E st \in {200, 0} : ProxyUpstreamResponse(1, st)

SpecProactive == InitProactive /\ [][NextProactive]_vars

\* C26: with the loop running and every exchange of the scheduler
\* succeeding, no proxy request for a record that holds an access token and
\* an expiry finds it within the proxy's buffer: the request does not
\* refresh.
C26_SchedulerAheadOfProxy ==
  [][\A r \in ReqSlots :
       (reqs[r].pc = "idle" /\ reqs'[r].pc # "idle" /\ reqs'[r].resolved # NullRecord
        /\ Truthy(reqs'[r].resolved.accessToken) /\ reqs'[r].resolved.expiresAt # None)
         => /\ reqs'[r].pc = "forwarding"
            /\ Events(reqs'[r], "token") = << >>
    ]_vars


\* ------------------------------------------------- the cipher on strings
\* encrypt and decrypt as crypto.ts has them, on the envelope as a string:
\* a plaintext is a sequence of code points, a Buffer a sequence of bytes,
\* the envelope a sequence of characters.  The sections above use the
\* envelope already taken apart (iv, data, tag).
TAG_BYTES == 16
MaxPlainLen == 2
FORMAT_ERROR == "Invalid encrypted value format"

\* ':', e acute, the euro sign: one, two and three bytes of UTF-8
CodePoints == {58, 233, 8364}

RECURSIVE SumSeq(_)
SumSeq(q) == IF q = << >> THEN 0 ELSE q[1] + SumSeq(Tail(q))

RECURSIVE Flatten(_)
Flatten(qs) == IF qs = << >> THEN << >> ELSE qs[1] \o Flatten(Tail(qs))

Utf8Char(cp) ==
  IF cp < 128 THEN <<cp>>
  ELSE IF cp < 2048 THEN <<192 + (cp \div 64), 128 + (cp % 64)>>
  ELSE <<224 + (cp \div 4096), 128 + ((cp \div 64) % 64), 128 + (cp % 64)>>

\* cipher.update(plaintext, 'utf8')
Utf8Encode(str) == Flatten([i \in 1..Len(str) |-> Utf8Char(str[i])])

IsContinuation(b) == b >= 128 /\ b < 192

\* Buffer.toString('utf8'): a byte that begins no complete character
\* becomes U+FFFD
RECURSIVE Utf8Decode(_)
Utf8Decode(bytes) ==
  IF bytes = << >> THEN << >>
  ELSE IF bytes[1] < 128 THEN <<bytes[1]>> \o Utf8Decode(Tail(bytes))
  ELSE IF bytes[1] >= 194 /\ bytes[1] < 224 /\ Len(bytes) >= 2 /\ IsContinuation(bytes[2])
  THEN <<(bytes[1] - 192) * 64 + (bytes[2] - 128)>> \o Utf8Decode(SubSeq(bytes, 3, Len(bytes)))
  ELSE IF bytes[1] >= 224 /\ bytes[1] < 240 /\ Len(bytes) >= 3
          /\ IsContinuation(bytes[2]) /\ IsContinuation(bytes[3])
          /\ (bytes[1] - 224) * 4096 + (bytes[2] - 128) * 64 + (bytes[3] - 128) >= 2048
  THEN <<(bytes[1] - 224) * 4096 + (bytes[2] - 128) * 64 + (bytes[3] - 128)>>
       \o Utf8Decode(SubSeq(bytes, 4, Len(bytes)))
  ELSE <<65533>> \o Utf8Decode(Tail(bytes))

HexDigits == <<"0", "1", "2", "3", "4", "5", "6", "7", "8", "9", "a", "b", "c", "d", "e", "f">>
IsHexChar(c) == \E i \in 1..Len(HexDigits) : HexDigits[i] = c
HexValue(c) == (CHOOSE i \in 1..Len(HexDigits) : HexDigits[i] = c) - 1

\* Buffer.toString('hex')
ToHex(bytes) ==
  [k \in 1..(2 * Len(bytes)) |->
     IF k % 2 = 1 THEN HexDigits[(bytes[(k + 1) \div 2] \div 16) + 1]
     ELSE HexDigits[(bytes[k \div 2] % 16) + 1]]

\* Buffer.from(s, 'hex'): the whole pairs of hex digits up to the first pair
\* that is not one
FromHex(s) ==
  LET good == {k \in 1..(Len(s) \div 2) :
                 \A j \in 1..k : IsHexChar(s[2 * j - 1]) /\ IsHexChar(s[2 * j])}
  IN  [k \in 1..Cardinality(good) |-> 16 * HexValue(s[2 * k - 1]) + HexValue(s[2 * k])]

\* String.prototype.split(':')
RECURSIVE Split(_)
Split(s) ==
  IF \A i \in 1..Len(s) : s[i] # ":" THEN <<s>>
  ELSE LET c == CHOOSE i \in 1..Len(s) : s[i] = ":" /\ \A j \in 1..(i - 1) : s[j] # ":"
       IN  <<SubSeq(s, 1, c - 1)>> \o Split(SubSeq(s, c + 1, Len(s)))

\* randomBytes(IV_BYTES), one value per nonce
IvBytes(nonce) == [i \in 1..IV_BYTES |-> (37 * nonce + i) % 256]

\* AES-256-GCM on bytes: a keystream of key and iv, a tag of key, iv and
\* ciphertext
KeyStreamByte(key, iv, i) == (key * (i + 1) + SumSeq(iv)) % 256
GcmTagBytes(key, iv, ct) ==
  [i \in 1..TAG_BYTES |->
     (key + i * (1 + SumSeq(iv)) + Len(ct)
      + SumSeq([j \in 1..Len(ct) |-> (j + 1) * ct[j]])) % 256]

\* the tag lengths setAuthTag accepts for GCM
GcmTagLengths == {4, 8, 12, 13, 14, 15, 16}

Returned(str) == [kind |-> "returned", plaintext |-> str]
Thrown(message) == [kind |-> "thrown", message |-> message]

\* mutant: the nonce is not drawn afresh
EncryptString_FixedIv(plaintext, nonce) ==
  LET iv == IvBytes(1)
      bytes == Utf8Encode(plaintext)
      ct == [i \in 1..Len(bytes) |-> (bytes[i] + KeyStreamByte(EncKey, iv, i)) % 256]
  IN  ToHex(iv) \o <<":">> \o ToHex(ct \o GcmTagBytes(EncKey, iv, ct))

EncryptString(plaintext, nonce) ==
  LET iv == IvBytes(nonce)
      bytes == Utf8Encode(plaintext)
      ct == [i \in 1..Len(bytes) |-> (bytes[i] + KeyStreamByte(EncKey, iv, i)) % 256]
  IN  ToHex(iv) \o <<":">> \o ToHex(ct \o GcmTagBytes(EncKey, iv, ct))

\* createDecipheriv, setAuthTag, update and final: each may throw
GcmOpen(iv, ciphertext, tag) ==
  IF Len(iv) = 0 \/ Len(tag) \notin GcmTagLengths
     \/ tag # GcmTagBytes(EncKey, iv, ciphertext)
  THEN Thrown(DECRYPT_ERROR)
  ELSE Returned(Utf8Decode([i \in 1..Len(ciphertext) |->
                              (ciphertext[i] + 256 - KeyStreamByte(EncKey, iv, i)) % 256]))

DecryptString(stored) ==
  LET segments == Split(stored)
  IN  IF segments[1] = << >> \/ Len(segments) < 2 \/ segments[2] = << >>
      THEN Thrown(FORMAT_ERROR)
      ELSE LET iv == FromHex(segments[1])
               data == FromHex(segments[2])
               cut == IF Len(data) > TAG_BYTES THEN Len(data) - TAG_BYTES ELSE 0
           IN  GcmOpen(iv, SubSeq(data, 1, cut), SubSeq(data, cut + 1, Len(data)))

RECURSIVE StringsUpTo(_, _)
StringsUpTo(S, n) ==
  IF n = 0 THEN {<< >>}
  ELSE LET shorter == StringsUpTo(S, n - 1)
       IN  shorter \cup {Append(q, x) : q \in shorter, x \in S}

CipherPlaintexts == StringsUpTo(CodePoints, MaxPlainLen)

\* an envelope as encrypt made it, and what a stored value may have become
EnvelopeVariants(e) ==
  LET c == CHOOSE i \in 1..Len(e) : e[i] = ":"
  IN  { e,
        << >>,
        SubSeq(e, 1, c - 1) \o SubSeq(e, c + 1, Len(e)),
        SubSeq(e, c, Len(e)),
        SubSeq(e, 1, c),
        e \o <<":">>,
        e \o <<":", "0", "0">>,
        SubSeq(e, 1, c) \o <<":">> \o SubSeq(e, c + 1, Len(e)),
        [e EXCEPT ![1] = "g"],
        [e EXCEPT ![c + 1] = "g"],
        [e EXCEPT ![Len(e)] = "g"],
        [e EXCEPT ![Len(e)] = IF @ = "0" THEN "1" ELSE "0"],
        SubSeq(e, 1, Len(e) - 2) }

\* encrypt keeps no state: the caller stays with one plaintext until it
\* turns to the store, which loses nothing
CallEncrypt(plaintext, nonce) ==
  /\ ret.op = "encrypt" => plaintext = ret.plaintext
  /\ ret.op = "decrypt" => plaintext = ret.of.plaintext
  /\ ret' = [ op |-> "encrypt", plaintext |-> plaintext, nonce |-> nonce,
              envelope |-> EncryptString(plaintext, nonce),
              before |-> IF ret.op = "encrypt" /\ ret.plaintext = plaintext
                         THEN [nonce |-> ret.nonce, envelope |-> ret.envelope]
                         ELSE NoRet ]
  /\ UNCHANGED <<now, connections, oauth_states, reqs, minted, cycles, timer, cbs, nextState, node>>

CallDecrypt ==
  /\ ret.op = "encrypt"
  /\ \E stored \in EnvelopeVariants(ret.envelope) :
       ret' = [op |-> "decrypt", stored |-> stored, result |-> DecryptString(stored), of |-> ret]
  /\ UNCHANGED <<now, connections, oauth_states, reqs, minted, cycles, timer, cbs, nextState, node>>

InitCipher ==
  /\ InitCommon
  /\ connections = {}

NextCipher ==
  \/ \E str \in CipherPlaintexts, nonce \in Nonces : CallEncrypt(str, nonce)
  \/ CallDecrypt
  \/ \E iv \in Nonces : CallStoreToken("oura", "a", iv)
  \/ CallGetToken("oura", "a")

SpecCipher == InitCipher /\ [][NextCipher]_vars

\* exactly two segments, none empty, hex digits only
TwoHexSegments(s) ==
  /\ Cardinality({i \in 1..Len(s) : s[i] = ":"}) = 1
  /\ s[1] # ":" /\ s[Len(s)] # ":"
  /\ \A i \in 1..Len(s) : s[i] = ":" \/ IsHexChar(s[i])

\* C28: decrypt of a stored value that is not two non-empty hex segments
\* around one ':' throws the format error, whatever else the value holds.
C28_MalformedIsFormatError ==
  (ret.op = "decrypt" /\ ~TwoHexSegments(ret.stored)) => ret.result = Thrown(FORMAT_ERROR)

\* C29: decrypt returns what encrypt was given, the empty string and
\* characters of several bytes included; two encryptions of one plaintext
\* under different nonces are different envelopes and both decrypt to it;
\* getToken returns the refresh token storeToken stored.
C29_RoundTrip ==
  /\ ret.op = "encrypt" =>
       /\ DecryptString(ret.envelope) = Returned(ret.plaintext)
       /\ TwoHexSegments(ret.envelope)
       /\ (ret.before # NoRet /\ ret.before.nonce # ret.nonce) =>
             /\ ret.before.envelope # ret.envelope
             /\ DecryptString(ret.before.envelope) = Returned(ret.plaintext)
  /\ (ret.op = "decrypt" /\ ret.stored = ret.of.envelope) =>
       ret.result = Returned(ret.of.plaintext)
  /\ ret.op = "getToken" =>
       IF SelectRows(connections, ret.provider, ret.account) = {} THEN ret.result = NullRecord
       ELSE ret.result.refreshToken = RefreshTokenOf(ret.account)

\* the empty string encrypted twice under different nonces, the second
\* envelope decrypted
C29_Witness ==
  /\ ret.op = "decrypt"
  /\ ret.result = Returned(<< >>)
  /\ ret.of.plaintext = << >>
  /\ ret.of.before # NoRet
  /\ ret.of.before.nonce # ret.of.nonce


\* ------------------------------------------------- the loop started and stopped
\* startRefreshLoop and stopRefreshLoop called in any order while time
\* passes and the cycles' exchanges are answered.
InitLoop ==
  /\ InitCommon
  /\ connections \in StoreFamily({<<"oura", "a">>}, SchedVariants, 1)

NextLoop ==
  \/ startRefreshLoop
  \/ stopRefreshLoop
  \/ Tick
  \/ AdvanceTime
  \/ \E c \in CycleSlots : CycleTokenResponse(c)

SpecLoop == InitLoop /\ [][NextLoop]_vars

\* the cycles a step starts
Started == {c \in CycleSlots : cycles[c].pc = "idle" /\ cycles'[c].pc # "idle"}

\* C30: at most one interval is active and it is the one _timer holds; a
\* cycle starts only with the first start of the loop, which also sets the
\* interval one period ahead, or when the active interval fires; while the
\* loop runs its interval is not replaced, and while it is stopped no
\* cycle starts.
C30_SingleTimer ==
  [][/\ Cardinality(node'.intervals) <= 1
     /\ timer' = None <=> node'.intervals = {}
     /\ \A i \in node'.intervals : timer' = Some(i.id)
     /\ Cardinality(Started) <= 1
     /\ (timer = None /\ timer' # None) =>
          /\ Cardinality(Started) = 1
          /\ \A c \in Started : cycles'[c].started = now
          /\ \A i \in node'.intervals : i.next = now + REFRESH_INTERVAL_SEC
     /\ (timer # None /\ timer' # None) =>
          /\ timer' = timer
          /\ Started # {} => \E i \in node.intervals :
                               /\ i.next = now
                               /\ node'.intervals = {[i EXCEPT !.next = now + REFRESH_INTERVAL_SEC]}
          /\ Started = {} => node'.intervals = node.intervals
     /\ timer' = None => Started = {}
    ]_vars

\* the loop was started and stopped, and the time of its next tick has
\* passed without a cycle
C30_Witness ==
  /\ timer = None
  /\ node.handles = 1
  /\ node.intervals = {}
  /\ cycles[1].pc # "idle"
  /\ now > cycles[1].started + REFRESH_INTERVAL_SEC
  /\ cycles[2].pc = "idle"


\* ------------------------------------ a token endpoint that sends no token
\* One stale record; the proxy and the scheduler refresh it, and the token
\* endpoint may answer 2xx with a body that has no access_token.
TokenlessVariants == {<<"a1", Some(T0 - 100)>>}

\* the token endpoint answers a cycle, with any of its answers
CycleAnyResponse(c) ==
  /\ minted < MaxMint
  /\ \E resp \in TokenResponses(minted + 1) :
       /\ CycleRefreshed(c, resp, TRUE)
       /\ minted' = IF resp.access_token = UNDEFINED THEN minted ELSE minted + 1
  /\ UNCHANGED <<now, oauth_states, reqs, timer, cbs, nextState, ret, node>>

InitTokenless ==
  /\ InitCommon
  /\ connections \in StoreFamily({<<"oura", "default">>, <<"oura", "a">>}, TokenlessVariants,
                                 MaxRecords) \ {{}}

NextTokenless ==
  \/ \E q \in FaultQueries : ProxyBegin(1, "oura", q, AuthHeaders)
  \/ ProxyRefreshResponse(1)
  \/ \E st \in {200, 401} : ProxyUpstreamResponse(1, st)
  \/ startRefreshLoop
  \/ \E c \in CycleSlots : CycleAnyResponse(c)

SpecTokenless == InitTokenless /\ [][NextTokenless]_vars

\* C31: no updateAccessToken of the proxy or the scheduler carries an
\* absent access token, no upstream call carries one in its Authorization
\* header, and a request whose exchange was answered 2xx without
\* access_token is answered TokenRefreshFailed.
C31_AccessTokenRequired ==
  /\ \A r \in ReqSlots :
       /\ \A i \in 1..Len(reqs[r].log) :
            /\ reqs[r].log[i].ev = "updateAccessToken" => Truthy(reqs[r].log[i].accessToken)
            /\ reqs[r].log[i].ev = "upstream" =>
                 reqs[r].log[i].headers["authorization"] # "Bearer " \o UNDEFINED
       /\ (reqs[r].tokenResp # NullRecord /\ ~Truthy(reqs[r].tokenResp.resp.access_token)) =>
            /\ reqs[r].pc = "done"
            /\ reqs[r].reply = Reply(401, "TokenRefreshFailed")
  /\ \A c \in CycleSlots :
       \A i \in 1..Len(cycles[c].log) :
         cycles[c].log[i].ev = "updateAccessToken" => Truthy(cycles[c].log[i].accessToken)


\* ------------------------------------------- one refresh path, two callers
\* what a refresh of record rec leaves in the store when the token endpoint
\* answered resp at time t
RefreshOutcome(conns, rec, resp, t) ==
  IF ~ResponseOk(resp) THEN conns
  ELSE updateAccessToken(conns, t, rec.provider, rec.account, BindValue(resp.access_token),
                         Some(t + (IF resp.expires_in = None THEN DEFAULT_EXPIRES_IN
                                   ELSE resp.expires_in[1])))

\* the exchange a refresh of record rec sends
RefreshExchange(rec) ==
  [ ev |-> "token", url |-> Registry[rec.provider].token_url, grant_type |-> "refresh_token",
    refresh_token |-> rec.refreshToken, client_id |-> Registry[rec.provider].client_id,
    client_secret |-> Registry[rec.provider].client_secret ]

\* C32: the proxy's refreshAccessToken and the scheduler's refreshToken send
\* the same exchange for a record and give the same result for every
\* answer of the token endpoint; either caller then leaves the store as
\* updateAccessToken(provider, account, access_token, now + expires_in or
\* 3600) does on a 2xx answer, and unchanged otherwise.
C32_SameRefreshPath ==
  [][/\ \A resp \in TokenResponses(minted + 1) :
          refreshToken(resp, now) = RefreshResult(resp, now)
     /\ \A r \in ReqSlots :
          reqs'[r].pc = "refreshing" =>
            reqs'[r].log[Len(reqs'[r].log)] = RefreshExchange(reqs'[r].tokenRecord)
     /\ \A c \in CycleSlots :
          cycles'[c].pc = "refreshing" =>
            cycles'[c].log[Len(cycles'[c].log)] = RefreshExchange(cycles'[c].tokens[cycles'[c].idx])
     /\ \A r \in ReqSlots :
          (reqs[r].pc = "refreshing" /\ reqs'[r].pc # "refreshing") =>
            connections' = RefreshOutcome(connections, reqs[r].tokenRecord,
                                          reqs'[r].tokenResp.resp, now)
     /\ \A c \in CycleSlots :
          (cycles[c].pc = "refreshing" /\ cycles'[c] # cycles[c]) =>
            LET token == cycles[c].tokens[cycles[c].idx]
                e == cycles'[c].log[Len(cycles[c].log) + 1]
            IN  IF e.ev = "updateAccessToken"
                THEN \E resp \in TokenResponses(minted + 1) :
                       /\ ResponseOk(resp)
                       /\ e.accessToken = resp.access_token
                       /\ connections' = RefreshOutcome(connections, token, resp, now)
                       /\ refreshToken(resp, now).expiresAt = e.expiresAt
                ELSE /\ e.ev = "failed"
                     /\ connections' = connections
    ]_vars

\* a request and a cycle have both refreshed the same record, each with a
\* token of its own
C32_Witness ==
  \E r \in ReqSlots, c \in CycleSlots :
    /\ Len(Events(reqs[r], "updateAccessToken")) = 1
    /\ \E i \in 1..Len(cycles[c].log) :
         /\ cycles[c].log[i].ev = "updateAccessToken"
         /\ cycles[c].log[i].provider = reqs[r].provider
         /\ cycles[c].log[i].account = reqs[r].account
         /\ cycles[c].log[i].accessToken # Events(reqs[r], "updateAccessToken")[1].accessToken


\* --------------------------------------------- whose token, whose record
\* C33: every updateAccessToken of a request or a cycle names the provider
\* and account of the record whose refresh token the exchange before it
\* sent, whichever way the record was resolved.
C33_WritesBackToSource ==
  /\ \A r \in ReqSlots :
       \A i \in 1..Len(reqs[r].log) :
         reqs[r].log[i].ev = "updateAccessToken" =>
           /\ i > 1 /\ reqs[r].log[i - 1].ev = "token"
           /\ reqs[r].log[i - 1].refresh_token = RefreshTokenOf(reqs[r].log[i].account)
           /\ reqs[r].log[i - 1].refresh_token = reqs[r].resolved.refreshToken
           /\ reqs[r].log[i].provider = reqs[r].resolved.provider
           /\ reqs[r].log[i].account = reqs[r].resolved.account
           /\ reqs[r].log[i - 1].url = Registry[reqs[r].log[i].provider].token_url
  /\ \A c \in CycleSlots :
       \A i \in 1..Len(cycles[c].log) :
         cycles[c].log[i].ev = "updateAccessToken" =>
           /\ i > 1 /\ cycles[c].log[i - 1].ev = "token"
           /\ cycles[c].log[i - 1].refresh_token = RefreshTokenOf(cycles[c].log[i].account)
           /\ cycles[c].log[i - 1].url = Registry[cycles[c].log[i].provider].token_url
           /\ \E j \in 1..Len(cycles[c].tokens) :
                /\ cycles[c].tokens[j].provider = cycles[c].log[i].provider
                /\ cycles[c].tokens[j].account = cycles[c].log[i].account
                /\ cycles[c].tokens[j].refreshToken = cycles[c].log[i - 1].refresh_token

\* a request without a selector fell back to the provider's only record,
\* (oura, a), and wrote to it; a cycle wrote to a record too
C33_Witness ==
  /\ \E r \in ReqSlots :
       /\ reqs[r].rawQuery = << >>
       /\ Len(Events(reqs[r], "getDefaultToken")) = 1
       /\ Len(Events(reqs[r], "updateAccessToken")) = 1
       /\ Events(reqs[r], "updateAccessToken")[1].account = "a"
  /\ \E c \in CycleSlots : \E i \in 1..Len(cycles[c].log) :
       cycles[c].log[i].ev = "updateAccessToken"


\* ------------------------------------- records that change under a refresh
\* Two expired records of one provider, a proxy request for (oura, a) and
\* the refresh loop, while the operator deletes connections and the owner
\* of (oura, a) authorizes it again.
ChurnKeys == {<<"oura", "a">>, <<"oura", "b">>}
ChurnVariants == {<<"a1", Some(T0 - 100)>>}
ChurnQuery == <<<<"account", "a">>>>

InitChurn ==
  /\ InitCommon
  /\ connections \in StoreFamily(ChurnKeys, ChurnVariants, MaxRecords) \ {{}}

NextChurn ==
  \/ ProxyBegin(1, "oura", ChurnQuery, AuthHeaders)
  \/ ProxyRefreshResponse(1)
  \/ ProxyUpstreamResponse(1, 200)
  \/ startRefreshLoop
  \/ \E c \in CycleSlots : CycleTokenResponse(c)
  \/ \E k \in ChurnKeys : DeleteRequest(AuthHeaders, k[1], k[2])
  \/ StartRequest(AuthHeaders, "oura", "a")
  \/ CallbackBegin(1, "oura", CallbackQuery("c", 1, UNDEFINED))
  \/ CallbackTokenResponse(1)

SpecChurn == InitChurn /\ [][NextChurn]_vars

Range(seq) == {seq[i] : i \in 1..Len(seq)}

\* the (provider, account) pairs of the table
StoredKeys(conns) == {<<r.provider, r.account>> : r \in conns}

\* the updateAccessToken calls of one step
GainedWrites ==
  UNION ({Gained(reqs[r], reqs'[r]) : r \in ReqSlots}
         \cup {Gained(cycles[c], cycles'[c]) : c \in CycleSlots})

\* C34: an updateAccessToken that runs after deleteToken removed its record
\* creates nothing: the step of the write leaves the table with the keys it
\* had, and leaves the table as it was when the record is gone; a pair
\* enters the table only in the step of a callback's storeToken.
C34_NoResurrection ==
  [][/\ \A e \in GainedWrites :
          /\ StoredKeys(connections') = StoredKeys(connections)
          /\ <<e.provider, e.account>> \notin StoredKeys(connections) => connections' = connections
     /\ \A k \in StoredKeys(connections') \ StoredKeys(connections) :
          \E c \in CbSlots :
            /\ Len(Events(cbs'[c], "storeToken")) > Len(Events(cbs[c], "storeToken"))
            /\ \E e \in Range(Events(cbs'[c], "storeToken")) : <<e.provider, e.account>> = k]_vars

\* (oura, a) was read by a request, then deleted, then a cycle that no
\* longer saw it refreshed (oura, b) with the first token minted, then the
\* request's refresh came back with the second and wrote: no row appeared
C34_Witness ==
  /\ \E e \in Range(Events(reqs[1], "updateAccessToken")) :
       e.account = "a" /\ e.accessToken = TokenNames[2]
  /\ \E c \in CycleSlots :
       /\ \A i \in DOMAIN cycles[c].tokens : cycles[c].tokens[i].account # "a"
       /\ \E e \in Range(Events(cycles[c], "updateAccessToken")) :
            e.account = "b" /\ e.accessToken = TokenNames[1]
  /\ StoredKeys(connections) = {<<"oura", "b">>}

\* the fetches a step started: the token exchanges and upstream calls its
\* log gained
Sent(before, after) ==
  {after.log[i] : i \in {j \in (Len(before.log) + 1)..Len(after.log) :
                           after.log[j].ev \in {"token", "upstream"}}}

\* C35: once deleteToken has removed a record, no request and no cycle
\* sends a refresh exchange with its refresh token or an upstream call with
\* its access token, those that read the record before the delete included:
\* whenever a step sends either, the record it sends for is in the table.
C35_NothingSentAfterDelete ==
  [][/\ \A r \in ReqSlots :
          Sent(reqs[r], reqs'[r]) # {} =>
            <<reqs'[r].provider, reqs'[r].account>> \in StoredKeys(connections)
     /\ \A c \in CycleSlots :
          Sent(cycles[c], cycles'[c]) # {} =>
            <<cycles'[c].tokens[cycles'[c].idx].provider,
              cycles'[c].tokens[cycles'[c].idx].account>> \in StoredKeys(connections)]_vars

\* the token endpoint issued an access token in answer to a refresh token
\* (the grant): to the code exchange of a callback that stored both, or to
\* a refresh exchange that sent the one and wrote the other
IssuedFor(issued, grant) ==
  \/ \E c \in CbSlots : \E e \in Range(Events(cbs[c], "storeToken")) :
       e.accessToken = issued /\ e.refreshToken = grant
  \/ \E r \in ReqSlots : \E i \in 2..Len(reqs[r].log) :
       /\ reqs[r].log[i].ev = "updateAccessToken" /\ reqs[r].log[i].accessToken = issued
       /\ reqs[r].log[i - 1].ev = "token" /\ reqs[r].log[i - 1].refresh_token = grant
  \/ \E c \in CycleSlots : \E i \in 2..Len(cycles[c].log) :
       /\ cycles[c].log[i].ev = "updateAccessToken" /\ cycles[c].log[i].accessToken = issued
       /\ cycles[c].log[i - 1].ev = "token" /\ cycles[c].log[i - 1].refresh_token = grant

\* C36: the access token of a record was issued for the refresh token the
\* record holds; a refresh that read the record before storeToken replaced
\* its refresh token does not overwrite the access token stored with it.
C36_TokenOfStoredGrant ==
  \A row \in connections :
    row.access_token \in Range(TokenNames) =>
      IssuedFor(row.access_token, decrypt(row.refresh_token_encrypted))

\* the refresh exchanges for (p, a) that wait for the token endpoint
ExchangesInFlight(p, a) ==
  {<<"request", r>> : r \in {x \in ReqSlots :
      reqs[x].pc = "refreshing" /\ reqs[x].provider = p /\ reqs[x].account = a}}
  \cup {<<"cycle", c>> : c \in {x \in CycleSlots :
      /\ cycles[x].pc = "refreshing"
      /\ cycles[x].tokens[cycles[x].idx].provider = p
      /\ cycles[x].tokens[cycles[x].idx].account = a}}

\* C37: at most one refresh exchange per (provider, account) is in flight:
\* two requests, or a request and a cycle, that read the same stale record
\* do not both send its refresh token.
C37_SingleFlight ==
  \A p \in Slugs, a \in Accounts \cup {""} : Cardinality(ExchangesInFlight(p, a)) <= 1


\* ------------------------------------------- handshakes nobody finishes
\* The running server: handshakes are started, callbacks arrive or do not,
\* the refresh loop ticks and time passes.  What the server does on its
\* own is fair: a pending code exchange is answered, the timer fires, the
\* clock moves.  A client is free never to come back with a state.
NextHandshakes ==
  \/ AdvanceTime
  \/ AuthStart("oura", "a")
  \/ \E c \in CbSlots, q \in CallbackQueries : CallbackBegin(c, "oura", q)
  \/ \E c \in CbSlots : CallbackTokenResponse(c)
  \/ startRefreshLoop
  \/ Tick

InitHandshakes ==
  /\ InitCommon
  /\ connections = {}

SpecHandshakes ==
  /\ InitHandshakes
  /\ [][NextHandshakes]_vars
  /\ WF_vars(AdvanceTime)
  /\ WF_vars(startRefreshLoop)
  /\ WF_vars(Tick)
  /\ \A c \in CbSlots : WF_vars(CallbackTokenResponse(c))

Saved(s) == \E r \in oauth_states : r.state = s

LeftoverState == [state |-> MaxStates, provider |-> "nope", account |-> "a", created_at |-> T0 - 100]

\* a state left by an earlier run of the server
InitLeftover ==
  /\ now = T0
  /\ oauth_states = {LeftoverState}
  /\ reqs = [r \in ReqSlots |-> IdleReq]
  /\ minted = 0
  /\ cycles = [c \in CycleSlots |-> IdleCycle]
  /\ timer = None
  /\ cbs = [c \in CbSlots |-> IdleCb]
  /\ nextState = 0
  /\ ret = NoRet
  /\ node = ServingNode
  /\ connections = {}

InitCallbacks ==
  \/ InitCommon /\ connections = {}
  \/ InitLeftover

\* the states drawn here differ from the one an earlier run left
FreshStart ==
  /\ nextState + 1 < MaxStates
  /\ AuthStart("oura", "a")

NextCallbacks ==
  \/ FreshStart
  \/ \E c \in CbSlots, p \in {"oura", "gcal", "nope"}, q \in CallbackQueries : CallbackBegin(c, p, q)
  \/ \E c \in CbSlots : CallbackTokenResponse(c)

SpecCallbacks == InitCallbacks /\ [][NextCallbacks]_vars

\* the step in which callback c arrives, and what it was turned away for
\* before it looked at the store
Arrives(c) == cbs[c].pc = "idle" /\ cbs'[c].pc # "idle"
RejectedEarly(cb) ==
  cb.reply \in {Reply(400, "OAuthError"), Reply(400, "MissingCodeOrState")}

\* C39: the first callback that presents a stored state with code and state
\* removes the state whatever comes of it (provider mismatch, unknown
\* provider, failed exchange, no refresh token, success), so the state
\* cannot be presented again; a callback turned away for the provider's
\* error parameter or a missing code or state leaves the states as they are.
C39_StateSpentOnFirstUse ==
  [][\A c \in CbSlots :
       /\ Arrives(c) /\ RejectedEarly(cbs'[c]) =>
            /\ oauth_states' = oauth_states
            /\ cbs'[c].log = << >>
       /\ Arrives(c) /\ ~RejectedEarly(cbs'[c]) =>
            /\ oauth_states' = {r \in oauth_states : r.state # cbs'[c].state}
            /\ Saved(cbs'[c].state) =>
                 /\ cbs'[c].stateData = consumeLookup(oauth_states, cbs'[c].state)
                 /\ \/ cbs'[c].pc = "exchanging"
                    \/ cbs'[c].reply \in {Reply(400, "InvalidState"), Reply(404, "UnknownProvider")}
            /\ ~Saved(cbs'[c].state) =>
                 /\ cbs'[c].reply = Reply(400, "InvalidState")
                 /\ Events(cbs'[c], "token") = << >>
       /\ cbs[c].pc = "exchanging" /\ cbs'[c].pc = "done" =>
            /\ oauth_states' = oauth_states
            /\ cbs'[c].reply \in {Reply(500, "TokenExchangeFailed"), Reply(500, "NoRefreshToken"),
                                  Reply(200, "")}
       /\ cbs'[c].stateData # NullRecord => \A r \in oauth_states' : r.state # cbs'[c].state]_vars

\* a callback presented a state bound to a provider that is not registered
\* any more and was answered 404; the state is gone, and the callback that
\* presented it again was told the state is invalid
C39_Witness ==
  /\ cbs[1].reply = Reply(404, "UnknownProvider")
  /\ cbs[1].stateData = [provider |-> "nope", account |-> "a"]
  /\ cbs[2].state = cbs[1].state
  /\ cbs[2].reply = Reply(400, "InvalidState")
  /\ cbs[2].stateData = NullRecord
  /\ oauth_states = {}


\* --------------------------------------------- one state, one connection
\* the callbacks that called storeToken
Storers == {c \in CbSlots : Events(cbs[c], "storeToken") # << >>}

\* C40: every storeToken is backed by one handshake state of its own: the
\* callbacks never store more often than POST /auth/:provider/start saved
\* states, no two of them store for the same state, and each stores under
\* the provider and account the consumed state was bound to.
C40_OneStatePerConnection ==
  /\ Cardinality(Storers) <= nextState
  /\ \A c \in Storers :
       /\ Len(Events(cbs[c], "storeToken")) = 1
       /\ cbs[c].state \in 1..nextState
       /\ c \in Winners(cbs[c].state)
       /\ \E pa \in StartRequests : cbs[c].stateData = [provider |-> pa[1], account |-> pa[2]]
       /\ Events(cbs[c], "storeToken")[1].provider = cbs[c].stateData.provider
       /\ Events(cbs[c], "storeToken")[1].account = cbs[c].stateData.account
  /\ \A c, d \in Storers : c # d => cbs[c].state # cbs[d].state
  /\ \A row \in connections :
       \E c \in Storers : <<row.provider, row.account>> =
                            <<cbs[c].stateData.provider, cbs[c].stateData.account>>

\* two callbacks presented the one state that was saved while neither had
\* finished; the first stored the connection, the second stored nothing
C40_Witness ==
  /\ nextState = 1
  /\ cbs[1].state = 1 /\ cbs[2].state = 1
  /\ Storers = {1}
  /\ cbs[2].pc = "done" /\ cbs[2].log # << >>
  /\ StoredKeys(connections) = {<<"oura", "a">>}

====
